---- MODULE Spec2Model ----
(***************************************************************************)
(* Camera matrix recovery engine of the Direct3D 9 proxy                   *)
(* (src/d3d9_proxy.cpp): candidate scorer, decomposer, SCANNING/LOCKED     *)
(* state machine and per-frame commit of WrappedD3D9Device.                *)
(*                                                                         *)
(* Numbers.  A C float is modelled as a pair <<n, d>>:                     *)
(*   d > 0  : the rational n/d in lowest terms (a finite float),           *)
(*   <<0,0>>: NaN,   <<1,0>>: +Infinity,   <<-1,0>>: -Infinity.            *)
(* Arithmetic on finite values is exact (binary rounding and overflow of   *)
(* float are not modelled; the magnitudes of the inputs of the model are   *)
(* rational squares, and a threshold of the code is the exact rational).   *)
(* Arithmetic on NaN and the infinities follows IEEE 754.                  *)
(*                                                                         *)
(* Matrices.  A D3DMATRIX and a float[16] are sequences of 16 floats in    *)
(* memory order: element _rc of a D3DMATRIX is index (r-1)*4 + c, element  *)
(* f[i] of a float array is index i+1.                                     *)
(***************************************************************************)
EXTENDS Integers, Sequences, FiniteSets, TLC

\* ------------------------------------------------------------------------
\* float arithmetic
\* ------------------------------------------------------------------------

RECURSIVE Gcd(_, _)
Gcd(a, b) == IF b = 0 THEN a ELSE Gcd(b, a % b)

IAbs(x) == IF x < 0 THEN -x ELSE x

NaN == <<0, 0>>
PInf == <<1, 0>>
NInf == <<-1, 0>>

\* the float n/d, d # 0, in lowest terms with a positive denominator
Norm(n, d) ==
    LET g == Gcd(IAbs(n), IAbs(d))
        s == IF d < 0 THEN -1 ELSE 1
    IN  <<(s * n) \div g, (s * d) \div g>>

R(n, d) == Norm(n, d)
Z(n) == <<n, 1>>

isfinite(x) == x[2] # 0
IsNaN(x) == x = NaN
Sign(x) == IF x[1] > 0 THEN 1 ELSE IF x[1] < 0 THEN -1 ELSE 0

FNeg(x) == <<-x[1], x[2]>>

fabsf(x) == <<IAbs(x[1]), x[2]>>

FAdd(x, y) ==
    IF IsNaN(x) \/ IsNaN(y) THEN NaN
    ELSE IF ~isfinite(x) /\ ~isfinite(y) THEN (IF x = y THEN x ELSE NaN)
    ELSE IF ~isfinite(x) THEN x
    ELSE IF ~isfinite(y) THEN y
    ELSE IF x[2] = y[2] THEN Norm(x[1] + y[1], x[2])
    ELSE LET g == Gcd(x[2], y[2])
         IN  Norm(x[1] * (y[2] \div g) + y[1] * (x[2] \div g), (x[2] \div g) * y[2])

FSub(x, y) == FAdd(x, FNeg(y))

FMul(x, y) ==
    IF IsNaN(x) \/ IsNaN(y) THEN NaN
    ELSE IF ~isfinite(x) \/ ~isfinite(y)
         THEN (IF Sign(x) * Sign(y) = 0 THEN NaN ELSE <<Sign(x) * Sign(y), 0>>)
    ELSE IF x[1] = 0 \/ y[1] = 0 THEN <<0, 1>>
    ELSE IF x[2] = 1 /\ y[2] = 1 THEN <<x[1] * y[1], 1>>
    ELSE LET g1 == Gcd(IAbs(x[1]), y[2])
             g2 == Gcd(IAbs(y[1]), x[2])
         IN  <<(x[1] \div g1) * (y[1] \div g2), (x[2] \div g2) * (y[2] \div g1)>>

FDiv(x, y) ==
    IF IsNaN(x) \/ IsNaN(y) THEN NaN
    ELSE IF ~isfinite(x) THEN (IF ~isfinite(y) THEN NaN
                               ELSE <<Sign(x) * (IF Sign(y) < 0 THEN -1 ELSE 1), 0>>)
    ELSE IF ~isfinite(y) THEN <<0, 1>>
    ELSE IF y[1] = 0 THEN (IF x[1] = 0 THEN NaN ELSE <<Sign(x), 0>>)
    ELSE FMul(x, IF y[1] < 0 THEN <<-y[2], -y[1]>> ELSE <<y[2], y[1]>>)

\* comparisons; every comparison with NaN is false
FLt(x, y) ==
    IF IsNaN(x) \/ IsNaN(y) THEN FALSE
    ELSE IF ~isfinite(x) THEN x = NInf /\ y # NInf
    ELSE IF ~isfinite(y) THEN y = PInf
    ELSE x[1] * y[2] < y[1] * x[2]

FGt(x, y) == FLt(y, x)
FLe(x, y) == ~IsNaN(x) /\ ~IsNaN(y) /\ (x = y \/ FLt(x, y))
FGe(x, y) == FLe(y, x)

\* largest r with r*r <= n
RECURSIVE ISqrt(_)
ISqrt(n) == IF n < 4 THEN (IF n = 0 THEN 0 ELSE 1)
            ELSE LET h == 2 * ISqrt(n \div 4)
                 IN  IF (h + 1) * (h + 1) <= n THEN h + 1 ELSE h

SqrtScale == 100

\* sqrtf: exact on squares of rationals, truncated to 1/SqrtScale otherwise
sqrtf(x) ==
    IF IsNaN(x) THEN NaN
    ELSE IF x = PInf THEN PInf
    ELSE IF x[1] < 0 THEN NaN
    ELSE LET rn == ISqrt(x[1])
             rd == ISqrt(x[2])
         IN  IF rn * rn = x[1] /\ rd * rd = x[2] THEN <<rn, rd>>
             ELSE Norm(ISqrt((x[1] * SqrtScale * SqrtScale) \div x[2]), SqrtScale)

Mag3_noRoot(a, b, c) == FAdd(FAdd(FMul(a, a), FMul(b, b)), FMul(c, c))
\* sqrtf(a*a + b*b + c*c)
Mag3(a, b, c) == sqrtf(FAdd(FAdd(FMul(a, a), FMul(b, b)), FMul(c, c)))

\* ------------------------------------------------------------------------
\* matrix helpers
\* ------------------------------------------------------------------------

F0 == <<0, 1>>
F1 == <<1, 1>>

\* element _rc of a D3DMATRIX
El(M, r, c) == M[(r - 1) * 4 + c]

ZeroMatrix == [i \in 1..16 |-> F0]

MultiplyMatrix4x4(A, B) ==
    [i \in 1..16 |->
        LET r == (i - 1) \div 4
            c == (i - 1) % 4
            P(k) == FMul(A[r * 4 + k + 1], B[k * 4 + c + 1])
        IN  FAdd(FAdd(FAdd(FAdd(F0, P(0)), P(1)), P(2)), P(3))]

TransposeMatrix4x4(in) ==
    [i \in 1..16 |-> LET c == (i - 1) \div 4
                         r == (i - 1) % 4
                     IN  in[r * 4 + c + 1]]

CreateIdentityMatrix == [i \in 1..16 |-> IF (i - 1) \div 4 = (i - 1) % 4 THEN F1 ELSE F0]

MultiplyD3D(A, B) == MultiplyMatrix4x4(A, B)

InvertView_negatedTranslation(V) ==
    << El(V, 1, 1), El(V, 2, 1), El(V, 3, 1), F0,
       El(V, 1, 2), El(V, 2, 2), El(V, 3, 2), F0,
       El(V, 1, 3), El(V, 2, 3), El(V, 3, 3), F0,
       FNeg(El(V, 4, 1)), FNeg(El(V, 4, 2)), FNeg(El(V, 4, 3)), F1 >>
InvertView(V) ==
    LET o11 == El(V, 1, 1)  o12 == El(V, 2, 1)  o13 == El(V, 3, 1)
        o21 == El(V, 1, 2)  o22 == El(V, 2, 2)  o23 == El(V, 3, 2)
        o31 == El(V, 1, 3)  o32 == El(V, 2, 3)  o33 == El(V, 3, 3)
        tx == El(V, 4, 1)
        ty == El(V, 4, 2)
        tz == El(V, 4, 3)
        T(a, b, c) == FNeg(FAdd(FAdd(FMul(tx, a), FMul(ty, b)), FMul(tz, c)))
    IN  << o11, o12, o13, F0,
           o21, o22, o23, F0,
           o31, o32, o33, F0,
           T(o11, o21, o31), T(o12, o22, o32), T(o13, o23, o33), F1 >>

ProjEpsilon == R(1, 10000)

InvertProj_signOfDepth(P) ==
    LET xS == El(P, 1, 1)
        yS == El(P, 2, 2)
        A  == El(P, 3, 3)
        B  == El(P, 4, 3)
    IN  IF FLt(fabsf(xS), ProjEpsilon) \/ FLt(fabsf(yS), ProjEpsilon)
           \/ FLt(fabsf(B), ProjEpsilon)
        THEN CreateIdentityMatrix
        ELSE << FDiv(F1, xS), F0, F0, F0,
                F0, FDiv(F1, yS), F0, F0,
                F0, F0, F0, FDiv(F1, B),
                F0, F0, F1, FDiv(A, B) >>
InvertProj_testsDepthScale(P) ==
    LET xS == El(P, 1, 1)
        yS == El(P, 2, 2)
        A  == El(P, 3, 3)
        B  == El(P, 4, 3)
    IN  IF FLt(fabsf(xS), ProjEpsilon) \/ FLt(fabsf(yS), ProjEpsilon)
           \/ FLt(fabsf(A), ProjEpsilon) \/ FLt(fabsf(B), ProjEpsilon)
        THEN CreateIdentityMatrix
        ELSE << FDiv(F1, xS), F0, F0, F0,
                F0, FDiv(F1, yS), F0, F0,
                F0, F0, F0, FDiv(F1, B),
                F0, F0, F1, FDiv(FNeg(A), B) >>
InvertProj(P) ==
    LET xS == El(P, 1, 1)
        yS == El(P, 2, 2)
        A  == El(P, 3, 3)
        B  == El(P, 4, 3)
    IN  IF FLt(fabsf(xS), ProjEpsilon) \/ FLt(fabsf(yS), ProjEpsilon)
           \/ FLt(fabsf(B), ProjEpsilon)
        THEN CreateIdentityMatrix
        ELSE << FDiv(F1, xS), F0, F0, F0,
                F0, FDiv(F1, yS), F0, F0,
                F0, F0, F0, FDiv(F1, B),
                F0, F0, F1, FDiv(FNeg(A), B) >>

\* ------------------------------------------------------------------------
\* candidate scorer and decomposer (column-major VP)
\* ------------------------------------------------------------------------

\* f[i] of a float array
At(f, i) == f[i + 1]

PrMagMin == R(8, 10)
PrMagMax == R(12, 10)
PrMagTol == R(5, 100)
ScaleMin == R(3, 10)
ScaleMax == R(5, 1)
DistMin == R(10, 1)

ScoreFinite_inclusiveBonus(f) ==
    LET prMag == Mag3(At(f, 3), At(f, 7), At(f, 11))
        xS == Mag3(At(f, 0), At(f, 4), At(f, 8))
        yS == Mag3(At(f, 1), At(f, 5), At(f, 9))
    IN  IF ~(FGe(prMag, PrMagMin) /\ FLe(prMag, PrMagMax)) THEN 0
        ELSE IF ~(FGe(xS, ScaleMin) /\ FLe(xS, ScaleMax)) THEN 0
        ELSE IF ~(FGe(yS, ScaleMin) /\ FLe(yS, ScaleMax)) THEN 0
        ELSE 5 + (IF FLe(fabsf(FSub(prMag, F1)), PrMagTol) THEN 3 ELSE 0)
               + 2 + 2
               + (IF FGe(fabsf(At(f, 15)), DistMin) THEN 2 ELSE 0)
ScoreFinite_exclusive(f) ==
    LET prMag == Mag3(At(f, 3), At(f, 7), At(f, 11))
        xS == Mag3(At(f, 0), At(f, 4), At(f, 8))
        yS == Mag3(At(f, 1), At(f, 5), At(f, 9))
    IN  IF ~(FGt(prMag, PrMagMin) /\ FLt(prMag, PrMagMax)) THEN 0
        ELSE IF ~(FGt(xS, ScaleMin) /\ FLt(xS, ScaleMax)) THEN 0
        ELSE IF ~(FGt(yS, ScaleMin) /\ FLt(yS, ScaleMax)) THEN 0
        ELSE 5 + (IF FLt(fabsf(FSub(prMag, F1)), PrMagTol) THEN 3 ELSE 0)
               + 2 + 2
               + (IF FGt(fabsf(At(f, 15)), DistMin) THEN 2 ELSE 0)
ScoreFinite_noPerspectiveGate(f) ==
    LET prMag == Mag3(At(f, 3), At(f, 7), At(f, 11))
        xS == Mag3(At(f, 0), At(f, 4), At(f, 8))
        yS == Mag3(At(f, 1), At(f, 5), At(f, 9))
    IN  IF ~(FGe(xS, ScaleMin) /\ FLe(xS, ScaleMax)) THEN 0
        ELSE IF ~(FGe(yS, ScaleMin) /\ FLe(yS, ScaleMax)) THEN 0
        ELSE (IF FGe(prMag, PrMagMin) /\ FLe(prMag, PrMagMax) THEN 5 ELSE 0)
               + (IF FLt(fabsf(FSub(prMag, F1)), PrMagTol) THEN 3 ELSE 0)
               + 2 + 2
               + (IF FGt(fabsf(At(f, 15)), DistMin) THEN 2 ELSE 0)
ScoreFinite(f) ==
    LET prMag == Mag3(At(f, 3), At(f, 7), At(f, 11))
        xS == Mag3(At(f, 0), At(f, 4), At(f, 8))
        yS == Mag3(At(f, 1), At(f, 5), At(f, 9))
    IN  IF ~(FGe(prMag, PrMagMin) /\ FLe(prMag, PrMagMax)) THEN 0
        ELSE IF ~(FGe(xS, ScaleMin) /\ FLe(xS, ScaleMax)) THEN 0
        ELSE IF ~(FGe(yS, ScaleMin) /\ FLe(yS, ScaleMax)) THEN 0
        ELSE 5 + (IF FLt(fabsf(FSub(prMag, F1)), PrMagTol) THEN 3 ELSE 0)
               + 2 + 2
               + (IF FGt(fabsf(At(f, 15)), DistMin) THEN 2 ELSE 0)

ScoreAsVP_noFiniteCheck(f) == ScoreFinite(f)
ScoreAsVP_rebased(f) ==
    IF \E i \in 0..15 : ~isfinite(At(f, i)) THEN 0 ELSE ScoreFinite(f) - 9
ScoreAsVP_skipsLast(f) ==
    IF \E i \in 0..14 : ~isfinite(At(f, i)) THEN 0 ELSE ScoreFinite(f)
\* lines 149-180; ScoreFinite is the part after the isfinite loop
ScoreAsVP(f) ==
    IF \E i \in 0..15 : ~isfinite(At(f, i)) THEN 0 ELSE ScoreFinite(f)

\* g_config.zNear, g_config.zFar
zNear == R(10, 1)
zFar == R(100000, 1)

DegenerateMin == R(1, 1000)

PerspectiveMatrix_transposed(xS, yS, A, B) ==
    << xS, F0, F0, F0,
       F0, yS, F0, F0,
       F0, F0, A, B,
       F0, F0, F1, F0 >>
\* the memset and the five assignments of lines 256-261 and of lines 267-272
PerspectiveMatrix(xS, yS, A, B) ==
    << xS, F0, F0, F0,
       F0, yS, F0, F0,
       F0, F0, A, F1,
       F0, F0, B, F0 >>

\* result: ok is the bool returned, view/proj/gameProj the three outputs
\* (written only when ok).  The function body is cut into steps whose
\* parameters are the C locals already computed; the steps are listed last
\* first: Scales (193-206), Basis (199-212), Eye (215-217), Outputs (226-272).
DecomposeVP_ColMajor(vp) ==
    LET Outputs(xS, yS, rx, ry, rz, ux, uy, uz, fx, fy, fz, eyeX, eyeY, eyeZ) ==
            LET tx == FNeg(FAdd(FAdd(FMul(rx, eyeX), FMul(ry, eyeY)), FMul(rz, eyeZ)))
                ty == FNeg(FAdd(FAdd(FMul(ux, eyeX), FMul(uy, eyeY)), FMul(uz, eyeZ)))
                tz == FNeg(FAdd(FAdd(FMul(fx, eyeX), FMul(fy, eyeY)), FMul(fz, eyeZ)))
                zN == zNear
                zF == zFar
                A_synth == FDiv(zF, FSub(zF, zN))
                B_synth == FDiv(FMul(FNeg(zN), zF), FSub(zF, zN))
                r2Mag == Mag3(At(vp, 2), At(vp, 6), At(vp, 10))
                A_game == r2Mag
                B_game == FSub(At(vp, 14), FMul(A_game, At(vp, 15)))
            IN  [ok |-> TRUE,
                 view |-> << rx, ux, fx, F0,
                             ry, uy, fy, F0,
                             rz, uz, fz, F0,
                             tx, ty, tz, F1 >>,
                 proj |-> PerspectiveMatrix(xS, yS, A_synth, B_synth),
                 gameProj |-> PerspectiveMatrix(xS, yS, A_game, B_game)]
        Eye(xS, yS, rx, ry, rz, ux, uy, uz, fx, fy, fz, rDotEye, uDotEye, fDotEye) ==
            Outputs(xS, yS, rx, ry, rz, ux, uy, uz, fx, fy, fz,
                    FAdd(FAdd(FMul(rDotEye, rx), FMul(uDotEye, ux)), FMul(fDotEye, fx)),
                    FAdd(FAdd(FMul(rDotEye, ry), FMul(uDotEye, uy)), FMul(fDotEye, fy)),
                    FAdd(FAdd(FMul(rDotEye, rz), FMul(uDotEye, uz)), FMul(fDotEye, fz)))
        Basis(xS, yS, fwdMag) ==
            Eye(xS, yS,
                FDiv(At(vp, 0), xS), FDiv(At(vp, 4), xS), FDiv(At(vp, 8), xS),
                FDiv(At(vp, 1), yS), FDiv(At(vp, 5), yS), FDiv(At(vp, 9), yS),
                FDiv(At(vp, 3), fwdMag), FDiv(At(vp, 7), fwdMag), FDiv(At(vp, 11), fwdMag),
                FDiv(FNeg(At(vp, 12)), xS), FDiv(FNeg(At(vp, 13)), yS), FNeg(At(vp, 15)))
        Scales(xS, yS, fwdMag) ==
            IF FLt(xS, DegenerateMin) \/ FLt(yS, DegenerateMin) THEN [ok |-> FALSE]
            ELSE IF FLt(fwdMag, DegenerateMin) THEN [ok |-> FALSE]
            ELSE Basis(xS, yS, fwdMag)
    IN  Scales(Mag3(At(vp, 0), At(vp, 4), At(vp, 8)),
               Mag3(At(vp, 1), At(vp, 5), At(vp, 9)),
               Mag3(At(vp, 3), At(vp, 7), At(vp, 11)))

ComputeVPInverse_reversed(view, gameProj) ==
    MultiplyD3D(InvertView(view), InvertProj(gameProj))
\* (GameProj * View)^-1 = GameProj^-1 * View^-1, lines 481-484 / 500-503 / 408-411
ComputeVPInverse(view, gameProj) ==
    MultiplyD3D(InvertProj(gameProj), InvertView(view))

\* ------------------------------------------------------------------------
\* inputs: the constant blocks the host uploads
\* ------------------------------------------------------------------------

Dot3(a, b) == FAdd(FAdd(FMul(a[1], b[1]), FMul(a[2], b[2])), FMul(a[3], b[3]))

\* Column-major VP = Proj * View as laid out in lines 134-147 and 184-190:
\* rows 0/1 are the projection-scaled right/up axes, row 2 is A * forward,
\* row 3 (the perspective row) is w * forward; column 3 holds the
\* projected eye position, f[14] = A * f[15] + B.
IdealVP(right, up, fwd, xS, yS, A, B, w, eye) ==
    LET f15 == FNeg(Dot3(fwd, eye))
    IN  << FMul(xS, right[1]), FMul(yS, up[1]), FMul(A, fwd[1]), FMul(w, fwd[1]),
           FMul(xS, right[2]), FMul(yS, up[2]), FMul(A, fwd[2]), FMul(w, fwd[2]),
           FMul(xS, right[3]), FMul(yS, up[3]), FMul(A, fwd[3]), FMul(w, fwd[3]),
           FNeg(FMul(xS, Dot3(right, eye))), FNeg(FMul(yS, Dot3(up, eye))),
           FAdd(FMul(A, f15), B), f15 >>

AxisX == <<F1, F0, F0>>
AxisY == <<F0, F1, F0>>
AxisZ == <<F0, F0, F1>>

SkewedUp == <<R(3, 5), R(4, 5), F0>>

EyeA == <<Z(100), Z(200), Z(300)>>
EyeNear == <<F0, F0, R(1, 128)>>
EyeOrigin == <<F0, F0, F0>>
EyeD == <<Z(7), Z(8), Z(9)>>

BlockA == IdealVP(AxisX, AxisY, AxisZ, Z(1), Z(2), Z(2), Z(-20), F1, EyeA)

Catalog ==
    [ A  |-> BlockA,
      \* camera at the origin, perspective row of magnitude 1.1, |f[14]| <= 1
      C  |-> IdealVP(AxisX, AxisY, AxisZ, Z(1), Z(2), R(1, 5), R(1, 2), R(11, 10), EyeOrigin),
      \* camera 1/128 in front of the origin (C to E moves f[15] by less than 0.01)
      E  |-> IdealVP(AxisX, AxisY, AxisZ, Z(1), Z(2), Z(2), Z(-20), F1, EyeNear),
      \* degenerate: a perspective row of magnitude 0.0005, eye elsewhere
      D  |-> IdealVP(AxisX, AxisY, AxisZ, Z(1), Z(2), Z(2), Z(-20), R(1, 2000), EyeD),
      \* A with f[12] = NaN and f[14] = +Infinity
      N  |-> [BlockA EXCEPT ![13] = NaN, ![15] = PInf],
      \* skewed: unit right and up directions that are not perpendicular
      S  |-> IdealVP(AxisX, SkewedUp, AxisZ, Z(1), Z(2), Z(2), Z(-20), F1, EyeOrigin) ]

BlockIds == DOMAIN Catalog

\* An upload event SetVertexShaderConstantF(StartRegister, pConstantData,
\* Vector4fCount): the data is the catalog block `block` followed by padding
\* (or cut to the vector count); null = TRUE is a null pConstantData.
UploadInputs ==
    [block : BlockIds, StartRegister : {0}, Vector4fCount : {4}, null : {FALSE}]
    \cup { [block |-> "A", StartRegister |-> 0, Vector4fCount |-> 5, null |-> FALSE],
           [block |-> "A", StartRegister |-> 1, Vector4fCount |-> 4, null |-> FALSE],
           [block |-> "A", StartRegister |-> 0, Vector4fCount |-> 3, null |-> FALSE],
           [block |-> "A", StartRegister |-> 0, Vector4fCount |-> 4, null |-> TRUE] }

pConstantData(u) ==
    LET b == Catalog[u.block]
    IN  [i \in 1..(4 * u.Vector4fCount) |-> IF i <= 16 THEN b[i] ELSE F0]

\* ------------------------------------------------------------------------
\* WrappedD3D9Device: detector state
\* ------------------------------------------------------------------------

MaxUploads == 2
MaxFrames == 4

LockFrames == 3
MaxDiagLogs == 15
MaxWorldLogs == 5
m_vpRegister == 0
diagnosticFrames == 2

MotionThreshold == R(1, 100)

VARIABLES
    m_detectState,          \* "SCANNING" or "LOCKED"
    m_consecutiveFrames,
    m_prevVP44,
    m_frameBestVP,
    m_frameBestScore,
    m_hasFrameCandidate,
    m_diagStartFrame,
    m_diagLogsThisFrame,
    m_lastView,
    m_lastProj,
    m_lastGameProj,
    m_pendingView,
    m_pendingProj,
    m_pendingGameProj,
    m_vpInverse,
    m_hasCamera,
    m_pendingUpdate,
    m_hasVPInverse,
    m_worldLogCount,
    g_frameCount,
    g_config,               \* the ProxyConfig as LoadConfig left it
    peer,                   \* the other WrappedD3D9Device, once created
    \* the exported boundary (lines 30-53, 814-930)
    attached,               \* DllMain(DLL_PROCESS_ATTACH) has run
    g_hRemixD3D9,           \* the library handle is not null
    g_orig,                 \* the exports whose g_orig... pointer is not null
    wrapped,                \* how many wrapper objects of each class were created
    loggedProj,             \* the static flag of DecomposeVP_ColMajor
    realCalls,              \* the calls made on m_real by the last event, in order
    \* history of the inputs
    frameUploads,           \* ids of the window-covering blocks of the frame
    frameClosed,            \* the frame of frameUploads was ended by Present
    h_qualCount,            \* frame boundaries in SCANNING whose best f[15] moved
    h_lockCount,            \* SCANNING -> LOCKED transitions so far
    h_candFrames,           \* frames in SCANNING that had a candidate
    h_candPrev,             \* best f[15] of the last such frame
    h_moved,                \* some such frame differed from the one before by > 0.01
    \* a direct call of one of the free functions (lines 68-275)
    fnArg,                  \* its argument: a block, a View or a projection
    fn,                     \* the function called last, "none" before the first call
    ret,                    \* the value it returned
                            \* (the three also record the last call of a handler
                            \*  or an export: its arguments and what it returned)
    viewOut,                \* the caller's three matrices handed to
    projOut,                \*   DecomposeVP_ColMajor
    gameProjOut,
    h_scores                \* the scores returned for fnArg so far

detector == << m_detectState, m_consecutiveFrames, m_prevVP44, m_frameBestVP,
               m_frameBestScore, m_hasFrameCandidate, m_diagStartFrame,
               m_diagLogsThisFrame, m_lastView, m_lastProj, m_lastGameProj,
               m_pendingView, m_pendingProj, m_pendingGameProj, m_vpInverse,
               m_hasCamera, m_pendingUpdate, m_hasVPInverse, m_worldLogCount >>

history == << frameUploads, frameClosed, h_qualCount, h_lockCount, h_candFrames,
              h_candPrev, h_moved >>

call == << fnArg, fn, ret, viewOut, projOut, gameProjOut, h_scores >>

boundary == << attached, g_hRemixD3D9, g_orig, wrapped >>

vars == << detector, g_config, boundary, peer, g_frameCount, loggedProj, realCalls, history, call >>

\* the device after its constructor, lines 292-330
Constructed ==
    /\ m_detectState = "SCANNING"
    /\ m_consecutiveFrames = 0
    /\ m_prevVP44 = F0
    /\ m_frameBestVP = ZeroMatrix
    /\ m_frameBestScore = 0
    /\ m_hasFrameCandidate = FALSE
    /\ m_diagStartFrame = -1
    /\ m_diagLogsThisFrame = 0
    /\ m_lastView = ZeroMatrix
    /\ m_lastProj = ZeroMatrix
    /\ m_lastGameProj = ZeroMatrix
    /\ m_pendingView = ZeroMatrix
    /\ m_pendingProj = ZeroMatrix
    /\ m_pendingGameProj = ZeroMatrix
    /\ m_vpInverse = ZeroMatrix
    /\ m_hasCamera = FALSE
    /\ m_pendingUpdate = FALSE
    /\ m_hasVPInverse = FALSE
    /\ m_worldLogCount = 0
    /\ g_frameCount = 0
    /\ loggedProj = FALSE
    /\ realCalls = <<>>
    /\ frameUploads = <<>>
    /\ frameClosed = FALSE
    /\ h_qualCount = 0
    /\ h_lockCount = 0
    /\ h_candFrames = 0
    /\ h_candPrev = F0
    /\ h_moved = FALSE

CreateExports == {"Direct3DCreate9", "Direct3DCreate9Ex"}
PerfExports == {"D3DPERF_BeginEvent", "D3DPERF_EndEvent", "D3DPERF_GetStatus",
                "D3DPERF_QueryRepeatFrame", "D3DPERF_SetMarker", "D3DPERF_SetOptions",
                "D3DPERF_SetRegion"}
Exports == CreateExports \cup PerfExports

\* the process once the library was loaded with every entry point, the
\* host obtained one IDirect3D9 and created one device from it
Loaded ==
    /\ attached = TRUE
    /\ g_hRemixD3D9 = TRUE
    /\ g_orig = Exports
    /\ wrapped = [WrappedD3D9 |-> 1, WrappedD3D9Ex |-> 0, WrappedD3D9Device |-> 1]

\* no second device has been created
NoDevice == [id |-> 0]

\* a WrappedD3D9Device as its constructor leaves it (lines 292-330), with the
\* history of its own inputs
NewDevice(id) ==
    [ id |-> id,
      m_detectState |-> "SCANNING",
      m_consecutiveFrames |-> 0,
      m_prevVP44 |-> F0,
      m_frameBestVP |-> ZeroMatrix,
      m_frameBestScore |-> 0,
      m_hasFrameCandidate |-> FALSE,
      m_diagStartFrame |-> -1,
      m_diagLogsThisFrame |-> 0,
      m_lastView |-> ZeroMatrix,
      m_lastProj |-> ZeroMatrix,
      m_lastGameProj |-> ZeroMatrix,
      m_pendingView |-> ZeroMatrix,
      m_pendingProj |-> ZeroMatrix,
      m_pendingGameProj |-> ZeroMatrix,
      m_vpInverse |-> ZeroMatrix,
      m_hasCamera |-> FALSE,
      m_pendingUpdate |-> FALSE,
      m_hasVPInverse |-> FALSE,
      m_worldLogCount |-> 0,
      realCalls |-> <<>>,
      frameUploads |-> <<>>,
      frameClosed |-> FALSE,
      h_qualCount |-> 0,
      h_lockCount |-> 0,
      h_candFrames |-> 0,
      h_candPrev |-> F0,
      h_moved |-> FALSE ]

\* the device the host is calling, as a record
ThisDevice(id) ==
    [ id |-> id,
      m_detectState |-> m_detectState,
      m_consecutiveFrames |-> m_consecutiveFrames,
      m_prevVP44 |-> m_prevVP44,
      m_frameBestVP |-> m_frameBestVP,
      m_frameBestScore |-> m_frameBestScore,
      m_hasFrameCandidate |-> m_hasFrameCandidate,
      m_diagStartFrame |-> m_diagStartFrame,
      m_diagLogsThisFrame |-> m_diagLogsThisFrame,
      m_lastView |-> m_lastView,
      m_lastProj |-> m_lastProj,
      m_lastGameProj |-> m_lastGameProj,
      m_pendingView |-> m_pendingView,
      m_pendingProj |-> m_pendingProj,
      m_pendingGameProj |-> m_pendingGameProj,
      m_vpInverse |-> m_vpInverse,
      m_hasCamera |-> m_hasCamera,
      m_pendingUpdate |-> m_pendingUpdate,
      m_hasVPInverse |-> m_hasVPInverse,
      m_worldLogCount |-> m_worldLogCount,
      realCalls |-> realCalls,
      frameUploads |-> frameUploads,
      frameClosed |-> frameClosed,
      h_qualCount |-> h_qualCount,
      h_lockCount |-> h_lockCount,
      h_candFrames |-> h_candFrames,
      h_candPrev |-> h_candPrev,
      h_moved |-> h_moved ]

\* g_config when camera_proxy.ini does not set DiagnosticFrames
DefaultConfig == [diagnosticFrames |-> diagnosticFrames]

Init ==
    /\ Constructed
    /\ g_config = DefaultConfig
    /\ peer = NoDevice
    /\ Loaded
    /\ fnArg = << >>
    /\ fn = "none"
    /\ ret = << >>
    /\ viewOut = ZeroMatrix
    /\ projOut = ZeroMatrix
    /\ gameProjOut = ZeroMatrix
    /\ h_scores = {}

\* ------------------------------------------------------------------------
\* the conditions of the two handlers
\* ------------------------------------------------------------------------

\* line 354-356
CoversWindow(u) ==
    /\ u.Vector4fCount >= 4
    /\ ~u.null
    /\ u.StartRegister <= m_vpRegister
    /\ u.StartRegister + u.Vector4fCount >= m_vpRegister + 4

\* line 358-359: the 16 floats at pConstantData + offset
WindowBlock_fromEnd(u) ==
    LET offset == (u.Vector4fCount - 4) * 4
    IN  [i \in 1..16 |-> pConstantData(u)[offset + i]]
WindowBlock(u) ==
    LET offset == (m_vpRegister - u.StartRegister) * 4
    IN  [i \in 1..16 |-> pConstantData(u)[offset + i]]

\* line 364-365 and 456
InDiagWindow(diagStart, frame) ==
    diagStart >= 0 /\ frame < diagStart + g_config.diagnosticFrames

IsBetterCandidate_anyPositive(score, bestScore) == score > 0
IsBetterCandidate_orEqual(score, bestScore) == score >= bestScore
\* line 382
IsBetterCandidate(score, bestScore) == score > bestScore

DecomposeOnArrival_whileScanning(state) == state = "SCANNING"
DecomposeOnArrival_always(state) == TRUE
\* line 389
DecomposeOnArrival(state) == state = "LOCKED"

QualifiesForDecompose_any(score) == score >= 0
QualifiesForDecompose_high(score) == score >= 12
\* line 390
QualifiesForDecompose(score) == score >= 6

IsFirstCamera_always(decomposed, hasCamera) == decomposed
\* line 398
IsFirstCamera(decomposed, hasCamera) == decomposed /\ ~hasCamera

IsFullResPass_nonZero(block) == FGt(fabsf(At(block, 14)), F0)
\* line 420
IsFullResPass(block) == FGt(fabsf(At(block, 14)), F1)

\* line 449
ScanningWithCandidate(state, hasCandidate) == state = "SCANNING" /\ hasCandidate

MotionDetected_noThreshold(cur, prev) == FGt(fabsf(FSub(cur, prev)), F0)
\* line 451-452
MotionDetected(cur, prev) == FGt(fabsf(FSub(cur, prev)), MotionThreshold)

NextConsecutive_resetWhenStill(consecutive, motion) ==
    IF motion THEN consecutive + 1 ELSE 0
\* line 452-454
NextConsecutive(consecutive, motion) ==
    IF motion THEN consecutive + 1 ELSE consecutive

LockReached_late(consecutive) == consecutive > LockFrames
LockReached_early(consecutive) == consecutive >= LockFrames - 1
\* line 465
LockReached(consecutive) == consecutive >= LockFrames

\* the scalar of a frame without a candidate taken to be none at all
NextPrevVP44_forgets(scanning, best15, prev) == IF scanning THEN best15 ELSE F0

\* m_prevVP44 = m_frameBestVP[15], line 462, inside the test of line 449
NextPrevVP44(scanning, best15, prev) == IF scanning THEN best15 ELSE prev

NextDetectState_recomputed(state, lockNow) == IF lockNow THEN "LOCKED" ELSE "SCANNING"
\* line 465-466
NextDetectState(state, lockNow) == IF lockNow THEN "LOCKED" ELSE state

\* a frame boundary that leaves the staged camera staged
ApplyPending_never(pendingUpdate, hasCamera) == FALSE
ApplyPending_noFlag(pendingUpdate, hasCamera) == hasCamera
ApplyPending_firstOnly(pendingUpdate, hasCamera) == pendingUpdate /\ ~hasCamera
\* line 493
ApplyPending(pendingUpdate, hasCamera) == pendingUpdate /\ hasCamera

SetTransform(state, matrix) == [call |-> "SetTransform", arg |-> <<state, matrix>>]
Forward(name, arg) == [call |-> name, arg |-> arg]

\* ------------------------------------------------------------------------
\* history helpers
\* ------------------------------------------------------------------------

ScoreOf == [id \in BlockIds |-> ScoreAsVP(Catalog[id])]
Decomposed == [id \in BlockIds |-> DecomposeVP_ColMajor(Catalog[id])]

\* a and b differ by more than 0.01
FarApart(a, b) == FGt(fabsf(FSub(a, b)), R(1, 100))

\* the window-covering uploads since the last frame boundary
CurrentFrame == IF frameClosed THEN <<>> ELSE frameUploads

FrameHasCandidate(ids) == \E i \in 1..Len(ids) : ScoreOf[ids[i]] > 0

\* the first upload of the frame that reached the frame's highest score
FrameBest(ids) ==
    ids[CHOOSE i \in 1..Len(ids) :
            /\ \A j \in 1..Len(ids) : ScoreOf[ids[j]] <= ScoreOf[ids[i]]
            /\ \A j \in 1..(i - 1) : ScoreOf[ids[j]] < ScoreOf[ids[i]]]

\* ------------------------------------------------------------------------
\* events
\* ------------------------------------------------------------------------

\* the outputs of a call of DecomposeVP_ColMajor that was not made
NotDecomposed == [ok |-> FALSE]

\* the window-covering uploads and, for each, the score of line 361 and the
\* result of the call of line 392; both are functions of the uploaded data
CoveringInputs == {u : u \in {v \in UploadInputs : CoversWindow(v)}}
WindowBlocks == {WindowBlock(u) : u \in CoveringInputs}
BlockScore == [block \in WindowBlocks |-> ScoreAsVP(block)]
BlockDecomposition == [block \in WindowBlocks |-> DecomposeVP_ColMajor(block)]


\* the tail call `return m_real->...(...)` of a handler called by the host
\* with args: the real device answers hr and the handler returns that
Returns(name, args, hr) ==
    /\ fnArg' = args
    /\ fn' = name
    /\ ret' = [value |-> hr, real |-> hr]

\* SetVertexShaderConstantF, lines 348-443
SetVertexShaderConstantF(u, hr) ==
    LET forward == << Forward("SetVertexShaderConstantF", u) >>
    IN
    IF ~CoversWindow(u)
    THEN /\ Returns("SetVertexShaderConstantF", u, hr)
         /\ realCalls' = forward
         /\ UNCHANGED << detector, g_config, boundary, peer, g_frameCount, loggedProj, history,
                         viewOut, projOut, gameProjOut, h_scores >>
    ELSE
    \E block \in {WindowBlock(u)} :
    \E score \in {BlockScore[block]} :
    \E locked \in {DecomposeOnArrival(m_detectState)} :
    \E dec \in {IF locked /\ QualifiesForDecompose(score)
                THEN BlockDecomposition[block] ELSE NotDecomposed} :
    LET \* diagnostic window, lines 364-379
        startDiag == score > 0 /\ m_diagStartFrame < 0
        inDiagWindow == InDiagWindow(m_diagStartFrame, g_frameCount) \/ startDiag
        logged == inDiagWindow /\ m_diagLogsThisFrame < MaxDiagLogs
        \* per-frame best, lines 382-386
        better == IsBetterCandidate(score, m_frameBestScore)
        \* LOCKED: decompose on arrival, lines 389-416
        decomposed == dec.ok
        firstCamera == IsFirstCamera(decomposed, m_hasCamera)
        hasVPInverse1 == m_hasVPInverse \/ firstCamera
        \* per-draw World, lines 420-438
        fullRes == locked /\ hasVPInverse1 /\ IsFullResPass(block)
        halfRes == locked /\ hasVPInverse1 /\ ~IsFullResPass(block)
    IN
    \E vpInverse1 \in {IF firstCamera THEN ComputeVPInverse(dec.view, dec.gameProj)
                       ELSE m_vpInverse} :
         /\ Returns("SetVertexShaderConstantF", u, hr)
         /\ m_diagStartFrame' = IF startDiag THEN g_frameCount ELSE m_diagStartFrame
         /\ m_diagLogsThisFrame' = IF logged THEN m_diagLogsThisFrame + 1
                                   ELSE m_diagLogsThisFrame
         /\ m_frameBestScore' = IF better THEN score ELSE m_frameBestScore
         /\ m_frameBestVP' = IF better THEN block ELSE m_frameBestVP
         /\ m_hasFrameCandidate' = (m_hasFrameCandidate \/ better)
         /\ m_pendingView' = IF decomposed THEN dec.view ELSE m_pendingView
         /\ m_pendingProj' = IF decomposed THEN dec.proj ELSE m_pendingProj
         /\ m_pendingGameProj' = IF decomposed THEN dec.gameProj ELSE m_pendingGameProj
         /\ m_pendingUpdate' = (m_pendingUpdate \/ decomposed)
         /\ loggedProj' = (loggedProj \/ decomposed)
         /\ m_lastView' = IF firstCamera THEN dec.view ELSE m_lastView
         /\ m_lastProj' = IF firstCamera THEN dec.proj ELSE m_lastProj
         /\ m_lastGameProj' = IF firstCamera THEN dec.gameProj ELSE m_lastGameProj
         /\ m_hasCamera' = (m_hasCamera \/ firstCamera)
         /\ m_vpInverse' = vpInverse1
         /\ m_hasVPInverse' = hasVPInverse1
         /\ m_worldLogCount' = IF fullRes /\ m_worldLogCount < MaxWorldLogs
                               THEN m_worldLogCount + 1 ELSE m_worldLogCount
         /\ realCalls' =
               (IF firstCamera
                THEN << SetTransform("D3DTS_VIEW", dec.view),
                        SetTransform("D3DTS_PROJECTION", dec.proj) >>
                ELSE << >>)
               \o (IF fullRes
                   THEN << SetTransform("D3DTS_WORLD",
                             MultiplyMatrix4x4(TransposeMatrix4x4(block), vpInverse1)) >>
                   ELSE IF halfRes
                   THEN << SetTransform("D3DTS_WORLD", CreateIdentityMatrix) >>
                   ELSE << >>)
               \o forward
         /\ frameUploads' = Append(CurrentFrame, u.block)
         /\ frameClosed' = FALSE
         /\ UNCHANGED << m_detectState, m_consecutiveFrames, m_prevVP44, g_frameCount,
                         h_qualCount, h_lockCount, h_candFrames, h_candPrev, h_moved,
                         viewOut, projOut, gameProjOut, h_scores, g_config, boundary, peer >>

\* Present, lines 446-529
Present(hr) ==
    \* SCANNING -> LOCKED, lines 449-490
    \E scanning \in {ScanningWithCandidate(m_detectState, m_hasFrameCandidate)} :
    \E motion \in {scanning /\ MotionDetected(At(m_frameBestVP, 15), m_prevVP44)} :
    \E consecutive1 \in {NextConsecutive(m_consecutiveFrames, motion)} :
    \E lockNow \in {scanning /\ LockReached(consecutive1)} :
    \E dec \in {IF lockNow THEN DecomposeVP_ColMajor(m_frameBestVP) ELSE NotDecomposed} :
    \* history
    \E frame \in {CurrentFrame} :
    \E inScan \in {m_detectState = "SCANNING" /\ FrameHasCandidate(frame)} :
    \E best15 \in {IF inScan THEN At(Catalog[FrameBest(frame)], 15) ELSE h_candPrev} :
    LET seeded == dec.ok
        hasCamera1 == m_hasCamera \/ seeded
        \* pending camera, lines 493-506
        apply == ApplyPending(m_pendingUpdate, hasCamera1)
    IN
    /\ Returns("Present", << >>, hr)
    /\ m_consecutiveFrames' = consecutive1
    /\ m_prevVP44' = NextPrevVP44(scanning, At(m_frameBestVP, 15), m_prevVP44)
    /\ m_detectState' = NextDetectState(m_detectState, lockNow)
    /\ loggedProj' = (loggedProj \/ seeded)
    /\ m_lastView' = IF apply THEN m_pendingView
                     ELSE IF seeded THEN dec.view ELSE m_lastView
    /\ m_lastProj' = IF apply THEN m_pendingProj
                     ELSE IF seeded THEN dec.proj ELSE m_lastProj
    /\ m_lastGameProj' = IF apply THEN m_pendingGameProj
                         ELSE IF seeded THEN dec.gameProj ELSE m_lastGameProj
    /\ m_hasCamera' = hasCamera1
    /\ m_vpInverse' = IF apply THEN ComputeVPInverse(m_pendingView, m_pendingGameProj)
                      ELSE IF seeded THEN ComputeVPInverse(dec.view, dec.gameProj)
                      ELSE m_vpInverse
    /\ m_hasVPInverse' = (m_hasVPInverse \/ seeded \/ apply)
    /\ m_pendingUpdate' = IF apply THEN FALSE ELSE m_pendingUpdate
    /\ m_hasFrameCandidate' = FALSE
    /\ m_frameBestScore' = 0
    /\ m_diagLogsThisFrame' = 0
    /\ g_frameCount' = g_frameCount + 1
    /\ realCalls' =
          (IF seeded
           THEN << SetTransform("D3DTS_VIEW", dec.view),
                   SetTransform("D3DTS_PROJECTION", dec.proj) >>
           ELSE << >>)
          \o (IF apply
              THEN << SetTransform("D3DTS_VIEW", m_pendingView),
                      SetTransform("D3DTS_PROJECTION", m_pendingProj) >>
              ELSE << >>)
          \o << Forward("Present", << >>) >>
    /\ frameUploads' = frame
    /\ frameClosed' = TRUE
    /\ h_qualCount' = IF inScan /\ FarApart(best15, m_prevVP44)
                      THEN h_qualCount + 1 ELSE h_qualCount
    /\ h_lockCount' = IF m_detectState = "SCANNING" /\ lockNow
                      THEN h_lockCount + 1 ELSE h_lockCount
    /\ h_candFrames' = IF inScan THEN h_candFrames + 1 ELSE h_candFrames
    /\ h_candPrev' = IF inScan THEN best15 ELSE h_candPrev
    /\ h_moved' = (h_moved \/ (inScan /\ h_candFrames > 0
                                /\ FarApart(best15, h_candPrev)))
    /\ UNCHANGED << m_frameBestVP, m_diagStartFrame, m_pendingView, m_pendingProj,
                    m_pendingGameProj, m_worldLogCount, viewOut, projOut, gameProjOut,
                    h_scores, g_config, boundary, peer >>

\* BeginScene re-asserting the camera without the identity World
BeginScene_cameraOnly(hr) ==
    /\ Returns("BeginScene", << >>, hr)
    /\ realCalls' =
          (IF m_hasCamera
           THEN << SetTransform("D3DTS_VIEW", m_lastView),
                   SetTransform("D3DTS_PROJECTION", m_lastProj) >>
           ELSE << >>)
          \o << Forward("BeginScene", << >>) >>
    /\ UNCHANGED << detector, g_config, boundary, peer, g_frameCount, loggedProj, history,
                    viewOut, projOut, gameProjOut, h_scores >>

\* BeginScene calling the real device before it re-asserts the camera
BeginScene_forwardsFirst(hr) ==
    /\ Returns("BeginScene", << >>, hr)
    /\ realCalls' =
          << Forward("BeginScene", << >>) >>
          \o (IF m_hasCamera
              THEN << SetTransform("D3DTS_WORLD", CreateIdentityMatrix),
                      SetTransform("D3DTS_VIEW", m_lastView),
                      SetTransform("D3DTS_PROJECTION", m_lastProj) >>
              ELSE << >>)
    /\ UNCHANGED << detector, g_config, boundary, peer, g_frameCount, loggedProj, history,
                    viewOut, projOut, gameProjOut, h_scores >>

\* BeginScene, lines 569-578
BeginScene(hr) ==
    /\ Returns("BeginScene", << >>, hr)
    /\ realCalls' =
          (IF m_hasCamera
           THEN << SetTransform("D3DTS_WORLD", CreateIdentityMatrix),
                   SetTransform("D3DTS_VIEW", m_lastView),
                   SetTransform("D3DTS_PROJECTION", m_lastProj) >>
           ELSE << >>)
          \o << Forward("BeginScene", << >>) >>
    /\ UNCHANGED << detector, g_config, boundary, peer, g_frameCount, loggedProj, history,
                    viewOut, projOut, gameProjOut, h_scores >>

\* what the real device answers: success, or a lost device
Results == {"D3D_OK", "D3DERR_DEVICELOST"}
Succeeds == {"D3D_OK"}

\* the window-covering uploads of one frame are cut off after `bound`
UploadsLeft(u, bound) == CoversWindow(u) => Len(CurrentFrame) < bound

\* the frames of a run are cut off after `bound`
FramesLeft(bound) == g_frameCount < bound

Next ==
    \/ \E u \in UploadInputs, hr \in Succeeds :
          UploadsLeft(u, MaxUploads) /\ SetVertexShaderConstantF(u, hr)
    \/ \E hr \in Succeeds : FramesLeft(MaxFrames) /\ Present(hr)
    \/ \E hr \in Succeeds : BeginScene(hr)

Spec == Init /\ [][Next]_vars

\* ------------------------------------------------------------------------
\* long frames under a configured diagnostic window: the same handlers,
\* DiagnosticFrames read from camera_proxy.ini (line 802), and one block
\* uploaded more often per frame than the per-frame cap of line 371
\* ------------------------------------------------------------------------

MaxDiagUploads == 17

\* values of DiagnosticFrames in camera_proxy.ini
DiagnosticFramesSettings == {0, 1, diagnosticFrames}

DiagInputs == {u \in UploadInputs : u.block = "A"}

DiagInit ==
    /\ Constructed
    /\ g_config \in [diagnosticFrames : DiagnosticFramesSettings]
    /\ peer = NoDevice
    /\ Loaded
    /\ fnArg = << >>
    /\ fn = "none"
    /\ ret = << >>
    /\ viewOut = ZeroMatrix
    /\ projOut = ZeroMatrix
    /\ gameProjOut = ZeroMatrix
    /\ h_scores = {}

DiagNext ==
    \/ \E u \in DiagInputs, hr \in Succeeds :
          UploadsLeft(u, MaxDiagUploads) /\ SetVertexShaderConstantF(u, hr)
    \/ \E hr \in Succeeds : FramesLeft(MaxFrames) /\ Present(hr)
    \/ \E hr \in Succeeds : BeginScene(hr)

DiagSpec == DiagInit /\ [][DiagNext]_vars

\* ------------------------------------------------------------------------
\* two wrapped devices in one process: the host creates a second device
\* (WrappedD3D9::CreateDevice, line 707) and calls either one.  The
\* variables m_... are the members of the device being called, peer holds
\* the members of the other one; g_frameCount, g_config and the static flag
\* of the decomposer exist once.
\* ------------------------------------------------------------------------

MaxPeerUploads == 1

PeerInputs ==
    {u \in UploadInputs : u.block \in {"A", "C"} /\ u.Vector4fCount = 4 /\ ~u.null}

\* WrappedD3D9::CreateDevice (lines 696-712) and WrappedD3D9Ex::CreateDevice
\* (751-762); ok: the real CreateDevice succeeded and returned a device.
\* The first device created is the one of the variables m_..., which hold
\* their constructor values until then; the second is peer.
CreateDevice(ok) ==
    /\ wrapped.WrappedD3D9 + wrapped.WrappedD3D9Ex > 0
    /\ wrapped.WrappedD3D9Device < 2
    /\ fn' = "CreateDevice"
    /\ ret' = [value |-> IF ok THEN "WrappedD3D9Device" ELSE "nullptr", forwarded |-> TRUE]
    /\ wrapped' = IF ok THEN [wrapped EXCEPT !.WrappedD3D9Device = @ + 1] ELSE wrapped
    /\ peer' = IF ok /\ wrapped.WrappedD3D9Device = 1 THEN NewDevice(2) ELSE peer
    /\ UNCHANGED << detector, g_config, attached, g_hRemixD3D9, g_orig, g_frameCount,
                    loggedProj, realCalls, history, fnArg, viewOut, projOut,
                    gameProjOut, h_scores >>

\* the host turns to the other device: its next calls go to that object
SwitchDevice ==
    /\ peer # NoDevice
    /\ peer' = ThisDevice(3 - peer.id)
    /\ m_detectState' = peer.m_detectState
    /\ m_consecutiveFrames' = peer.m_consecutiveFrames
    /\ m_prevVP44' = peer.m_prevVP44
    /\ m_frameBestVP' = peer.m_frameBestVP
    /\ m_frameBestScore' = peer.m_frameBestScore
    /\ m_hasFrameCandidate' = peer.m_hasFrameCandidate
    /\ m_diagStartFrame' = peer.m_diagStartFrame
    /\ m_diagLogsThisFrame' = peer.m_diagLogsThisFrame
    /\ m_lastView' = peer.m_lastView
    /\ m_lastProj' = peer.m_lastProj
    /\ m_lastGameProj' = peer.m_lastGameProj
    /\ m_pendingView' = peer.m_pendingView
    /\ m_pendingProj' = peer.m_pendingProj
    /\ m_pendingGameProj' = peer.m_pendingGameProj
    /\ m_vpInverse' = peer.m_vpInverse
    /\ m_hasCamera' = peer.m_hasCamera
    /\ m_pendingUpdate' = peer.m_pendingUpdate
    /\ m_hasVPInverse' = peer.m_hasVPInverse
    /\ m_worldLogCount' = peer.m_worldLogCount
    /\ realCalls' = peer.realCalls
    /\ frameUploads' = peer.frameUploads
    /\ frameClosed' = peer.frameClosed
    /\ h_qualCount' = peer.h_qualCount
    /\ h_lockCount' = peer.h_lockCount
    /\ h_candFrames' = peer.h_candFrames
    /\ h_candPrev' = peer.h_candPrev
    /\ h_moved' = peer.h_moved
    /\ UNCHANGED << g_config, boundary, g_frameCount, loggedProj, call >>

PeerNext ==
    \/ \E u \in PeerInputs, hr \in Succeeds :
          UploadsLeft(u, MaxPeerUploads) /\ SetVertexShaderConstantF(u, hr)
    \/ \E hr \in Succeeds : FramesLeft(MaxFrames) /\ Present(hr)
    \/ \E hr \in Succeeds : BeginScene(hr)
    \/ CreateDevice(TRUE)
    \/ SwitchDevice

PeerSpec == Init /\ [][PeerNext]_vars

\* ------------------------------------------------------------------------
\* the exported boundary: DllMain resolves the library and its entry
\* points, the host calls the exports and creates devices
\* ------------------------------------------------------------------------

MaxInterfaces == 1

NothingWrapped == [WrappedD3D9 |-> 0, WrappedD3D9Ex |-> 0, WrappedD3D9Device |-> 0]

\* DllMain(DLL_PROCESS_ATTACH), lines 814-857, with LoadConfig (790-811);
\* found: one of the two LoadLibraryA calls returned a handle; resolved: the
\* names for which GetProcAddress returned an address; config: what
\* LoadConfig left in g_config
DllMain(found, resolved, config) ==
    /\ ~attached
    /\ attached' = TRUE
    /\ g_config' = config
    /\ g_hRemixD3D9' = found
    /\ g_orig' = IF found THEN resolved ELSE {}
    /\ UNCHANGED << detector, peer, wrapped, g_frameCount, loggedProj, realCalls,
                    history, call >>

Proxy_Direct3DCreate9_unchecked(real) ==
    LET resolved == "Direct3DCreate9" \in g_orig
        wraps == real # "nullptr"
    IN  /\ attached
        /\ wrapped.WrappedD3D9 < MaxInterfaces
        /\ fn' = "Direct3DCreate9"
        /\ ret' = [value |-> IF wraps THEN "WrappedD3D9" ELSE "nullptr",
                   forwarded |-> resolved]
        /\ wrapped' = IF wraps THEN [wrapped EXCEPT !.WrappedD3D9 = @ + 1] ELSE wrapped
        /\ UNCHANGED << detector, g_config, attached, g_hRemixD3D9, g_orig, peer,
                        g_frameCount, loggedProj, realCalls, history, fnArg, viewOut,
                        projOut, gameProjOut, h_scores >>
\* Proxy_Direct3DCreate9, lines 873-886; real: what the original returns
Proxy_Direct3DCreate9(real) ==
    LET resolved == "Direct3DCreate9" \in g_orig
        wraps == resolved /\ real # "nullptr"
    IN  /\ attached
        /\ wrapped.WrappedD3D9 < MaxInterfaces
        /\ fn' = "Direct3DCreate9"
        /\ ret' = [value |-> IF wraps THEN "WrappedD3D9" ELSE "nullptr",
                   forwarded |-> resolved]
        /\ wrapped' = IF wraps THEN [wrapped EXCEPT !.WrappedD3D9 = @ + 1] ELSE wrapped
        /\ UNCHANGED << detector, g_config, attached, g_hRemixD3D9, g_orig, peer,
                        g_frameCount, loggedProj, realCalls, history, fnArg, viewOut,
                        projOut, gameProjOut, h_scores >>

\* Proxy_Direct3DCreate9Ex, lines 888-903; hr and real: what the original
\* returns and stores
Proxy_Direct3DCreate9Ex(hr, real) ==
    LET resolved == "Direct3DCreate9Ex" \in g_orig
        wraps == resolved /\ hr = "S_OK" /\ real # "nullptr"
    IN  /\ attached
        /\ wrapped.WrappedD3D9Ex < MaxInterfaces
        /\ fn' = "Direct3DCreate9Ex"
        /\ ret' = [value |-> IF resolved THEN hr ELSE "E_FAIL",
                   out |-> IF wraps THEN "WrappedD3D9Ex"
                           ELSE IF resolved THEN "nullptr" ELSE "untouched",
                   forwarded |-> resolved]
        /\ wrapped' = IF wraps THEN [wrapped EXCEPT !.WrappedD3D9Ex = @ + 1] ELSE wrapped
        /\ UNCHANGED << detector, g_config, attached, g_hRemixD3D9, g_orig, peer,
                        g_frameCount, loggedProj, realCalls, history, fnArg, viewOut,
                        projOut, gameProjOut, h_scores >>

\* what a D3DPERF export returns without the original, lines 905-929
PerfDefault ==
    [ D3DPERF_BeginEvent |-> 0, D3DPERF_EndEvent |-> 0, D3DPERF_GetStatus |-> 0,
      D3DPERF_QueryRepeatFrame |-> FALSE, D3DPERF_SetMarker |-> "void",
      D3DPERF_SetOptions |-> "void", D3DPERF_SetRegion |-> "void" ]

VoidExports == {"D3DPERF_SetMarker", "D3DPERF_SetOptions", "D3DPERF_SetRegion"}

\* what the original may return
PerfResults(name) ==
    IF name \in VoidExports THEN {"void"}
    ELSE IF name = "D3DPERF_QueryRepeatFrame" THEN BOOLEAN
    ELSE {0, 1}

\* the seven Proxy_D3DPERF_... exports, lines 905-929
Proxy_D3DPERF(name, result) ==
    LET resolved == name \in g_orig
    IN  /\ attached
        /\ fn' = name
        /\ ret' = [value |-> IF resolved THEN result ELSE PerfDefault[name],
                   forwarded |-> resolved]
        /\ UNCHANGED << detector, g_config, boundary, peer, g_frameCount, loggedProj,
                        realCalls, history, fnArg, viewOut, projOut, gameProjOut,
                        h_scores >>

\* before DllMain: static initialisers of lines 29-53
BoundaryInit ==
    /\ Constructed
    /\ g_config = DefaultConfig
    /\ peer = NoDevice
    /\ attached = FALSE
    /\ g_hRemixD3D9 = FALSE
    /\ g_orig = {}
    /\ wrapped = NothingWrapped
    /\ fnArg = << >>
    /\ fn = "none"
    /\ ret = << >>
    /\ viewOut = ZeroMatrix
    /\ projOut = ZeroMatrix
    /\ gameProjOut = ZeroMatrix
    /\ h_scores = {}

BoundaryNext ==
    \/ \E found \in BOOLEAN, resolved \in SUBSET Exports,
          config \in [diagnosticFrames : DiagnosticFramesSettings] :
          DllMain(found, resolved, config)
    \/ \E real \in {"nullptr", "IDirect3D9"} : Proxy_Direct3DCreate9(real)
    \/ \E hr \in {"S_OK", "D3DERR_NOTAVAILABLE"}, real \in {"nullptr", "IDirect3D9Ex"} :
          Proxy_Direct3DCreate9Ex(hr, real)
    \/ \E name \in PerfExports : \E result \in PerfResults(name) : Proxy_D3DPERF(name, result)
    \/ \E ok \in BOOLEAN : CreateDevice(ok)

BoundarySpec == BoundaryInit /\ [][BoundaryNext]_vars

\* ------------------------------------------------------------------------
\* the free functions called directly (lines 68-275): one argument, drawn
\* from FnInputs, and any sequence of calls on it
\* ------------------------------------------------------------------------

\* an orthonormal basis turned about the z axis
TurnedX == <<R(3, 5), R(4, 5), F0>>
TurnedY == <<R(-4, 5), R(3, 5), F0>>
\* and one turned about the x axis
TiltedY == <<F0, R(3, 5), R(4, 5)>>
TiltedZ == <<F0, R(-4, 5), R(3, 5)>>

FnBases == { <<AxisX, AxisY, AxisZ>>, <<TurnedX, TurnedY, AxisZ>> }
\* projection scales around the gates 0.001 (line 196), 0.3 and 5.0 (lines 170, 173)
FnScales == { R(1, 2000), R(1, 4), R(3, 10), F1, Z(5), Z(6) }
\* magnitudes of the perspective row around 0.001 (line 206), 0.8 and 1.2
\* (line 159) and 1 +/- 0.05 (line 163)
FnPerspectives == { R(1, 2000), R(7, 10), R(4, 5), R(24, 25), F1, R(21, 20),
                    R(6, 5), R(13, 10) }
\* eyes whose distance along forward is 0, 10 (line 177) and 300
FnEyes == { EyeOrigin, <<F0, F0, Z(10)>>, EyeA }

\* the finite blocks, each with the basis, scales and eye it was built from
IdealInputs ==
    { [kind |-> "ideal",
       value |-> IdealVP(b[1], b[2], b[3], xS, yS, Z(2), Z(-20), w, eye),
       basis |-> b, xS |-> xS, yS |-> yS, w |-> w, eye |-> eye] :
      b \in FnBases, xS \in FnScales, yS \in FnScales, w \in FnPerspectives,
      eye \in FnEyes }

\* a catalog block with one value replaced by NaN, +Infinity or -Infinity
NonFiniteInputs ==
    { [kind |-> "nonfinite", value |-> [Catalog[id] EXCEPT ![i] = v],
       base |-> id, at |-> i - 1] :
      id \in {"A", "C", "D"}, i \in 1..16, v \in {NaN, PInf, NInf} }

\* the View of lines 231-234 for a basis and a translation row
ViewMatrix(right, up, fwd, t) ==
    << right[1], up[1], fwd[1], F0,
       right[2], up[2], fwd[2], F0,
       right[3], up[3], fwd[3], F0,
       t[1], t[2], t[3], F1 >>

FnTranslations == { <<F0, F0, F0>>, <<Z(1), Z(2), Z(3)>>, <<Z(-100), Z(-200), Z(-300)>>,
                    <<R(1, 2), Z(-7), Z(9)>> }

\* rigid Views, and Views whose rotation block is skewed or scaled
ViewInputs ==
    { [kind |-> "view", value |-> ViewMatrix(b[1], b[2], b[3], t)] :
      b \in FnBases \cup { <<AxisX, TiltedY, TiltedZ>>, <<AxisX, SkewedUp, AxisZ>>,
                           <<<<Z(2), F0, F0>>, AxisY, AxisZ>> },
      t \in FnTranslations }

\* coefficients around the threshold 1e-4 of line 121
FnCoefficients == { F0, R(1, 20000), R(1, 10000), R(-1, 10000), F1, Z(-20) }

ProjInputs ==
    { [kind |-> "proj", value |-> PerspectiveMatrix(xS, yS, A, B)] :
      xS \in FnCoefficients, yS \in FnCoefficients, A \in {F0, F1, Z(2)},
      B \in FnCoefficients }

FnInputs == IdealInputs \cup NonFiniteInputs \cup ViewInputs \cup ProjInputs

IsBlockInput == fnArg.kind \in {"ideal", "nonfinite"}

\* what the caller's matrices hold before the call
CallerMatrix == [i \in 1..16 |-> Z(7)]

FnInit ==
    /\ Constructed
    /\ g_config = DefaultConfig
    /\ peer = NoDevice
    /\ Loaded
    /\ fnArg \in FnInputs
    /\ fn = "none"
    /\ ret = << >>
    /\ viewOut = CallerMatrix
    /\ projOut = CallerMatrix
    /\ gameProjOut = CallerMatrix
    /\ h_scores = {}

\* ScoreAsVP(fnArg), lines 149-180
CallScoreAsVP ==
    /\ IsBlockInput
    /\ \E score \in {ScoreAsVP(fnArg.value)} :
         /\ fn' = "ScoreAsVP"
         /\ ret' = score
         /\ h_scores' = h_scores \cup {score}
    /\ UNCHANGED << detector, g_config, boundary, peer, g_frameCount, loggedProj, realCalls, history,
                    fnArg, viewOut, projOut, gameProjOut >>

CallDecomposeVP_ColMajor_clearsFirst ==
    /\ IsBlockInput
    /\ \E dec \in {DecomposeVP_ColMajor(fnArg.value)} :
         /\ fn' = "DecomposeVP_ColMajor"
         /\ ret' = dec.ok
         /\ viewOut' = IF dec.ok THEN dec.view ELSE ZeroMatrix
         /\ projOut' = IF dec.ok THEN dec.proj ELSE ZeroMatrix
         /\ gameProjOut' = IF dec.ok THEN dec.gameProj ELSE ZeroMatrix
         /\ loggedProj' = (loggedProj \/ dec.ok)
    /\ UNCHANGED << detector, g_config, boundary, peer, g_frameCount, realCalls, history, fnArg, h_scores >>
\* DecomposeVP_ColMajor(fnArg, &viewOut, &projOut, &gameProjOut), lines 191-275:
\* both returns of false (196, 206) come before the first write (230)
CallDecomposeVP_ColMajor ==
    /\ IsBlockInput
    /\ \E dec \in {DecomposeVP_ColMajor(fnArg.value)} :
         /\ fn' = "DecomposeVP_ColMajor"
         /\ ret' = dec.ok
         /\ viewOut' = IF dec.ok THEN dec.view ELSE viewOut
         /\ projOut' = IF dec.ok THEN dec.proj ELSE projOut
         /\ gameProjOut' = IF dec.ok THEN dec.gameProj ELSE gameProjOut
         /\ loggedProj' = (loggedProj \/ dec.ok)
    /\ UNCHANGED << detector, g_config, boundary, peer, g_frameCount, realCalls, history, fnArg, h_scores >>

\* InvertView(fnArg), lines 99-111
CallInvertView ==
    /\ fnArg.kind = "view"
    /\ fn' = "InvertView"
    /\ ret' = InvertView(fnArg.value)
    /\ UNCHANGED << detector, g_config, boundary, peer, g_frameCount, loggedProj, realCalls, history,
                    fnArg, viewOut, projOut, gameProjOut, h_scores >>

\* InvertProj(fnArg), lines 118-130
CallInvertProj ==
    /\ fnArg.kind = "proj"
    /\ fn' = "InvertProj"
    /\ ret' = InvertProj(fnArg.value)
    /\ UNCHANGED << detector, g_config, boundary, peer, g_frameCount, loggedProj, realCalls, history,
                    fnArg, viewOut, projOut, gameProjOut, h_scores >>

FnNext ==
    \/ CallScoreAsVP
    \/ CallDecomposeVP_ColMajor
    \/ CallInvertView
    \/ CallInvertProj

FnSpec == FnInit /\ [][FnNext]_vars

\* ------------------------------------------------------------------------
\* vocabulary of the properties
\* ------------------------------------------------------------------------

\* the step is a frame boundary / is an upload or a BeginScene
PresentStep == g_frameCount' = g_frameCount + 1
NonPresentStep == g_frameCount' = g_frameCount

\* the step is a window-covering upload; UploadedId is the block it delivered
CoveringUploadStep == ~frameClosed' /\ Len(frameUploads') = Len(CurrentFrame) + 1
UploadedId == frameUploads'[Len(frameUploads')]

LastCallIs(name) == realCalls # << >> /\ realCalls[Len(realCalls)].call = name

\* number of SetTransform(state, ...) calls in a sequence of calls
Pushes(calls, state) ==
    Cardinality({i \in 1..Len(calls) :
                    calls[i].call = "SetTransform" /\ calls[i].arg[1] = state})

AnyPush(calls) == \E i \in 1..Len(calls) : calls[i].call = "SetTransform"

Committed == << m_lastView, m_lastProj, m_lastGameProj >>
Pending == << m_pendingView, m_pendingProj, m_pendingGameProj >>
CameraOf(id) == << Decomposed[id].view, Decomposed[id].proj, Decomposed[id].gameProj >>

AllFinite(f) == \A i \in 1..16 : f[i][2] # 0
FiniteIds == {id \in BlockIds : AllFinite(Catalog[id])}

\* the upload is neither rejected by the scorer nor degenerate
Decomposes(id) == ScoreOf[id] > 0 /\ Decomposed[id].ok

\* ------------------------------------------------------------------------
\* properties
\* ------------------------------------------------------------------------

\* C1: the device is LOCKED exactly from the third frame boundary on whose
\* best candidate's f[15] differed from the stored scalar by more than 0.01
\* (not before it), and it goes from SCANNING to LOCKED at most once.
C1_LockedAtThirdMovingFrame ==
    /\ (m_detectState = "LOCKED") <=> (h_qualCount >= 3)
    /\ h_qualCount <= 3
    /\ h_lockCount <= 1
    /\ (h_lockCount = 1) <=> (m_detectState = "LOCKED")

\* three frames, each a moving one, and the third boundary has just locked
C1_Witness ==
    /\ g_frameCount = 3 /\ h_qualCount = 3 /\ LastCallIs("Present")
    /\ m_detectState = "LOCKED" /\ h_lockCount = 1

\* C2: as long as no candidate frame's best f[15] differed by more than 0.01
\* from that of the candidate frame before it, the device is SCANNING.
C2_StillCameraStaysScanning == ~h_moved => m_detectState = "SCANNING"

\* three candidate frames of a camera that sits still away from the origin:
\* the first counted against the initial scalar 0, the others not at all
C2_Witness ==
    /\ ~h_moved /\ h_candFrames >= 3 /\ m_consecutiveFrames = 1
    /\ m_detectState = "SCANNING" /\ LastCallIs("Present")

\* C3: every SetTransform the engine originates is made by an event that
\* ends in LOCKED; none is made while the device stays SCANNING.
C3_NoTransformWhileScanning == AnyPush(realCalls) => m_detectState = "LOCKED"

\* the frame boundary that locks pushes View and Projection
C3_Witness ==
    /\ LastCallIs("Present") /\ h_lockCount = 1 /\ g_frameCount = 3
    /\ Pushes(realCalls, "D3DTS_VIEW") = 1 /\ Pushes(realCalls, "D3DTS_PROJECTION") = 1

\* C4: a device starts in SCANNING, and no step leaves LOCKED.
C4_LockedIsTerminal ==
    /\ m_detectState = "SCANNING"
    /\ [][m_detectState = "LOCKED" => m_detectState' = "LOCKED"]_vars

\* LOCKED has survived a whole frame without any candidate
C4_Witness ==
    /\ m_detectState = "LOCKED" /\ LastCallIs("Present") /\ frameUploads = << >>
    /\ g_frameCount = 4

\* the last upload of the frame that was decomposed on arrival in LOCKED
LastDecomposing(ids) ==
    ids[CHOOSE i \in 1..Len(ids) :
            /\ Decomposes(ids[i])
            /\ \A j \in (i + 1)..Len(ids) : ~Decomposes(ids[j])]

FrameDecomposes(ids) == \E i \in 1..Len(ids) : Decomposes(ids[i])

\* C5 as stated: the camera committed at a frame boundary is the
\* decomposition of the frame's highest-scoring upload, and an upload that
\* is not (so far) the highest-scoring one of its frame leaves the pending
\* camera alone.
C5_CommitsHighestScoring ==
    [][ /\ (PresentStep /\ FrameHasCandidate(CurrentFrame) /\ m_detectState' = "LOCKED")
            => Committed' = CameraOf(FrameBest(CurrentFrame))
        /\ (CoveringUploadStep /\ FrameBest(frameUploads') # UploadedId)
            => Pending' = Pending ]_vars

\* C5 amended: in SCANNING no upload is decomposed on arrival and the
\* frame boundary that locks commits the decomposition of the frame's
\* highest-scoring upload (the first that reached that score); in LOCKED
\* every upload that scores is decomposed on arrival into the pending camera
\* and the frame boundary commits the decomposition of the last of them.
C5_CommitsLastDecomposed ==
    [][ /\ (NonPresentStep /\ m_detectState = "SCANNING")
            => UNCHANGED << Pending, m_pendingUpdate, Committed, loggedProj >>
        /\ (PresentStep /\ m_detectState = "SCANNING" /\ m_detectState' = "SCANNING")
            => UNCHANGED << Pending, m_pendingUpdate, Committed, loggedProj >>
        /\ (PresentStep /\ m_detectState = "SCANNING" /\ m_detectState' = "LOCKED")
            => Committed' = CameraOf(FrameBest(CurrentFrame))
        /\ (CoveringUploadStep /\ m_detectState = "LOCKED" /\ Decomposes(UploadedId))
            => (Pending' = CameraOf(UploadedId) /\ m_pendingUpdate')
        /\ (PresentStep /\ m_detectState = "LOCKED" /\ FrameDecomposes(CurrentFrame))
            => Committed' = CameraOf(LastDecomposing(CurrentFrame)) ]_vars

\* a LOCKED frame whose last upload scored lower than its first: the
\* lower-scoring one was committed
C5_Witness ==
    /\ LastCallIs("Present") /\ frameUploads = << "A", "C" >>
    /\ ScoreOf["C"] < ScoreOf["A"]
    /\ Committed = CameraOf("C") /\ Committed # CameraOf("A")

\* C6: uploads and BeginScene leave the committed camera and the
\* ViewProjectionInverse alone, and one frame boundary pushes View and
\* Projection at most once each.
C6_CommitOnlyAtFrameBoundary ==
    [][ /\ NonPresentStep
            => UNCHANGED << Committed, m_vpInverse, m_hasCamera, m_hasVPInverse >>
        /\ PresentStep
            => /\ Pushes(realCalls', "D3DTS_VIEW") <= 1
               /\ Pushes(realCalls', "D3DTS_PROJECTION") <= 1 ]_vars

\* an upload was decomposed in LOCKED and is staged, the committed camera
\* still being the older one
C6_Witness ==
    /\ m_detectState = "LOCKED" /\ LastCallIs("SetVertexShaderConstantF")
    /\ m_pendingUpdate /\ m_hasCamera /\ Pending # Committed

\* the blocks of the catalog with a perspective row of magnitude 1.0, and
\* the eye each was built for
ValidIds == {"A", "E"}
EyeOf == [A |-> EyeA, E |-> EyeNear]

\* the translation row of a View for eye e and the axis-aligned basis
ViewRowFor(e) == << FNeg(Dot3(AxisX, e)), FNeg(Dot3(AxisY, e)), FNeg(Dot3(AxisZ, e)) >>
TranslationRow(V) == << El(V, 4, 1), El(V, 4, 2), El(V, 4, 3) >>

\* C7 as stated: after the frame boundary of a frame (degenerate block,
\* valid block for eye E) the committed View is that of the valid block.
C7_ValidBlockCommitted ==
    [][ \A v \in ValidIds :
          (PresentStep /\ CurrentFrame = << "D", v >>)
            => /\ m_hasCamera'
               /\ m_lastView' = Decomposed[v].view
               /\ TranslationRow(m_lastView') = ViewRowFor(EyeOf[v]) ]_vars

\* C7 amended: the same, provided the device is LOCKED when that frame
\* boundary completes (it was LOCKED already, or this boundary locks).
C7_ValidBlockCommittedWhenLocked ==
    [][ \A v \in ValidIds :
          (PresentStep /\ CurrentFrame = << "D", v >> /\ m_detectState' = "LOCKED")
            => /\ m_hasCamera'
               /\ m_lastView' = Decomposed[v].view
               /\ TranslationRow(m_lastView') = ViewRowFor(EyeOf[v])
               /\ TranslationRow(m_lastView') # ViewRowFor(EyeD) ]_vars

\* the frame (D, A) has been committed: View is the one for eye (100,200,300)
C7_Witness ==
    /\ LastCallIs("Present") /\ frameUploads = << "D", "A" >>
    /\ m_detectState = "LOCKED" /\ m_hasCamera
    /\ TranslationRow(m_lastView) = << Z(-100), Z(-200), Z(-300) >>

Untouched ==
    UNCHANGED << m_frameBestVP, m_frameBestScore, m_hasFrameCandidate, Pending,
                 m_pendingUpdate, Committed, m_hasCamera, m_vpInverse, m_hasVPInverse,
                 m_detectState, m_consecutiveFrames, m_prevVP44 >>

\* C8 as stated: an upload that scores 0 changes nothing but diagnostic
\* counters and causes no View, Projection or World call.
C8_RejectedContributesNothing ==
    [][ (CoveringUploadStep /\ ScoreOf[UploadedId] = 0)
            => (Untouched /\ ~AnyPush(realCalls')) ]_vars

\* C8 amended: an upload that scores 0 changes nothing but diagnostic
\* counters and causes no View or Projection call; it causes no World call
\* either, except that in LOCKED with a ViewProjectionInverse it causes the
\* one per-draw World call that every window-covering upload causes.
C8_RejectedOnlyPushesWorld ==
    [][ (CoveringUploadStep /\ ScoreOf[UploadedId] = 0)
            => /\ Untouched
               /\ Pushes(realCalls', "D3DTS_VIEW") = 0
               /\ Pushes(realCalls', "D3DTS_PROJECTION") = 0
               /\ Pushes(realCalls', "D3DTS_WORLD") =
                     (IF m_detectState = "LOCKED" /\ m_hasVPInverse THEN 1 ELSE 0) ]_vars

\* a rejected block has just been uploaded in LOCKED: one World call
C8_Witness ==
    /\ LastCallIs("SetVertexShaderConstantF") /\ ~frameClosed /\ frameUploads # << >>
    /\ ScoreOf[frameUploads[Len(frameUploads)]] = 0
    /\ m_detectState = "LOCKED" /\ Pushes(realCalls, "D3DTS_WORLD") = 1

\* C9: the per-frame best candidate is a finite block, and the pending and
\* the committed camera are decompositions of finite blocks.
C9_NoNonFiniteCamera ==
    /\ m_hasFrameCandidate => AllFinite(m_frameBestVP)
    /\ m_pendingUpdate =>
          \E id \in FiniteIds : Decomposed[id].ok /\ Pending = CameraOf(id)
    /\ m_hasCamera =>
          \E id \in FiniteIds : Decomposed[id].ok /\ Committed = CameraOf(id)

\* a LOCKED frame that contained the non-finite block has been committed
C9_Witness ==
    /\ LastCallIs("Present") /\ m_hasCamera /\ h_lockCount = 1
    /\ \E i \in 1..Len(frameUploads) : frameUploads[i] \notin FiniteIds
    /\ \E i \in 1..Len(frameUploads) : Decomposes(frameUploads[i])

\* C10: a frame boundary in LOCKED after a frame without any successful
\* decomposition leaves the committed camera and the ViewProjectionInverse
\* as they were.
C10_LastGoodCameraRetained ==
    [][ (PresentStep /\ m_detectState = "LOCKED" /\ ~FrameDecomposes(CurrentFrame))
            => UNCHANGED << Committed, m_vpInverse, m_hasCamera, m_hasVPInverse >> ]_vars

\* a LOCKED frame of a degenerate and a non-finite block has ended and the
\* camera is still there
C10_Witness ==
    /\ LastCallIs("Present") /\ m_detectState = "LOCKED"
    /\ frameUploads = << "D", "N" >>
    /\ m_hasCamera /\ m_hasVPInverse /\ ~m_pendingUpdate

\* C11: a frame boundary in LOCKED with a pending decomposition makes the
\* pending View, Projection and GameProjection the committed ones, recomputes
\* the ViewProjectionInverse from them and clears the pending flag; every
\* frame boundary resets the per-frame best score to 0, the has-candidate
\* flag to false and the per-frame diagnostic counter to 0.
C11_FrameBoundaryCommitsAndResets ==
    [][ PresentStep =>
          /\ (m_detectState = "LOCKED" /\ m_pendingUpdate)
                => /\ Committed' = Pending
                   /\ m_hasVPInverse'
                   /\ m_vpInverse' = MultiplyD3D(InvertProj(m_pendingGameProj),
                                                 InvertView(m_pendingView))
                   /\ ~m_pendingUpdate'
          /\ m_frameBestScore' = 0
          /\ ~m_hasFrameCandidate'
          /\ m_diagLogsThisFrame' = 0 ]_vars

\* a LOCKED frame with a decomposed upload has just been committed, the
\* camera differing from the one the lock seeded
C11_Witness ==
    /\ LastCallIs("Present") /\ g_frameCount = 4 /\ h_lockCount = 1
    /\ frameUploads = << "E" >> /\ Committed = CameraOf("E") /\ Committed = Pending
    /\ ~m_pendingUpdate /\ m_frameBestScore = 0 /\ ~m_hasFrameCandidate
    /\ m_diagLogsThisFrame = 0

\* the frame being closed has a candidate whose f[15] differs by more than
\* 0.01 from the best f[15] of an earlier frame that had a candidate
MovedSinceObserved ==
    /\ FrameHasCandidate(CurrentFrame)
    /\ h_candFrames > 0
    /\ FarApart(At(Catalog[FrameBest(CurrentFrame)], 15), h_candPrev)

\* C12: a frame boundary in SCANNING adds exactly one to the evidence
\* counter if the frame has a candidate whose best f[15] differs by more
\* than 0.01 from the best f[15] observed in a previous frame, and leaves the
\* counter alone otherwise; the first frame that has a candidate is compared
\* with nothing and adds nothing.
C12_CountsOnlyObservedMotion ==
    [][ (PresentStep /\ m_detectState = "SCANNING")
            => m_consecutiveFrames' =
                  (IF MovedSinceObserved THEN m_consecutiveFrames + 1
                   ELSE m_consecutiveFrames) ]_vars

\* C13: the evidence counter never decreases: uploads and BeginScene leave
\* it alone and a frame boundary leaves it alone or adds one, whether or not
\* the frame has a candidate or moved; it is the number of frame boundaries
\* so far that counted, however many others lie between them.
C13_CounterNeverDecreases ==
    /\ [](m_consecutiveFrames = h_qualCount)
    /\ [][ /\ m_consecutiveFrames' >= m_consecutiveFrames
           /\ NonPresentStep => m_consecutiveFrames' = m_consecutiveFrames
           /\ PresentStep => m_consecutiveFrames' \in
                               {m_consecutiveFrames, m_consecutiveFrames + 1} ]_vars

\* the fourth frame boundary locks: three of the four frames counted, one
\* (without a candidate) lies between them
C13_Witness ==
    /\ LastCallIs("Present") /\ g_frameCount = 4 /\ m_detectState = "LOCKED"
    /\ m_consecutiveFrames = 3 /\ h_candFrames = 3
    /\ FrameHasCandidate(frameUploads) /\ m_pendingView = ZeroMatrix

\* C14: the frame boundary at which the evidence counter reaches 3 leaves
\* the device LOCKED with a committed camera that is the decomposition of
\* that frame's best candidate, with its ViewProjectionInverse, and pushes
\* that View and that Projection to the real device before it forwards
\* Present.
C14_LockSeedsCameraAtOnce ==
    [][ (PresentStep /\ m_consecutiveFrames < 3 /\ m_consecutiveFrames' >= 3)
            => /\ m_detectState' = "LOCKED"
               /\ m_hasCamera' /\ m_hasVPInverse'
               /\ Committed' = CameraOf(FrameBest(CurrentFrame))
               /\ realCalls' =
                     << SetTransform("D3DTS_VIEW",
                                     Decomposed[FrameBest(CurrentFrame)].view),
                        SetTransform("D3DTS_PROJECTION",
                                     Decomposed[FrameBest(CurrentFrame)].proj),
                        Forward("Present", << >>) >> ]_vars

\* the third counted frame, of two uploads, has just locked and its best
\* candidate's View and Projection went out ahead of Present
C14_Witness ==
    /\ LastCallIs("Present") /\ g_frameCount = 3 /\ m_consecutiveFrames = 3
    /\ m_detectState = "LOCKED" /\ Len(frameUploads) = 2
    /\ FrameBest(frameUploads) = frameUploads[2]
    /\ Len(realCalls) = 3
    /\ realCalls[1] = SetTransform("D3DTS_VIEW", m_lastView)
    /\ realCalls[2] = SetTransform("D3DTS_PROJECTION", m_lastProj)
    /\ Committed = CameraOf(frameUploads[2])

\* the uploads of a frame that reach the decomposition threshold of 6
Qualifying(ids) == {i \in 1..Len(ids) : ScoreOf[ids[i]] >= 6}
LastQualifying(ids) ==
    ids[CHOOSE i \in Qualifying(ids) : \A j \in Qualifying(ids) : j <= i]

\* C15: in LOCKED a window-covering upload that scores at least 6 is
\* decomposed on arrival and becomes the pending camera; in SCANNING an
\* upload leaves the pending camera and the decomposer alone; the frame
\* boundary of a LOCKED frame with such uploads commits, and pushes, the
\* decomposition of the last of them.
C15_DecomposedOnArrivalWhenLocked ==
    [][ /\ (CoveringUploadStep /\ m_detectState = "LOCKED" /\ ScoreOf[UploadedId] >= 6)
            => /\ Decomposed[UploadedId].ok
               /\ m_pendingUpdate'
               /\ m_pendingView' = Decomposed[UploadedId].view
               /\ m_pendingProj' = Decomposed[UploadedId].proj
               /\ m_pendingGameProj' = Decomposed[UploadedId].gameProj
        /\ (CoveringUploadStep /\ m_detectState = "SCANNING")
            => (~m_pendingUpdate' /\ UNCHANGED << Pending, loggedProj >>)
        /\ (PresentStep /\ m_detectState = "LOCKED" /\ Qualifying(CurrentFrame) # {})
            => /\ Committed' = CameraOf(LastQualifying(CurrentFrame))
               /\ realCalls'[1] = SetTransform("D3DTS_VIEW",
                                     Decomposed[LastQualifying(CurrentFrame)].view) ]_vars

\* a LOCKED frame of two qualifying uploads has ended: the camera is that
\* of the second
C15_Witness ==
    /\ LastCallIs("Present") /\ g_frameCount = 4 /\ h_lockCount = 1
    /\ frameUploads = << "A", "E" >>
    /\ ScoreOf["A"] >= 6 /\ ScoreOf["E"] >= 6
    /\ Committed = CameraOf("E") /\ Committed # CameraOf("A")

\* C16: a ViewProjectionInverse exists exactly when a committed camera
\* does, and it is then InvertProj(committed GameProjection) multiplied by
\* InvertView(committed View), in that order; without a committed camera the
\* committed matrices are still the zeroed ones of construction.
C16_InverseMatchesCommitted ==
    /\ m_hasVPInverse <=> m_hasCamera
    /\ m_hasVPInverse =>
          m_vpInverse = MultiplyMatrix4x4(InvertProj(m_lastGameProj),
                                          InvertView(m_lastView))
    /\ ~m_hasCamera => Committed = << ZeroMatrix, ZeroMatrix, ZeroMatrix >>

\* the camera seeded at the lock has been replaced by a pending one and the
\* inverse is that of the new camera, the order of the product mattering
C16_Witness ==
    /\ LastCallIs("Present") /\ g_frameCount = 4 /\ m_hasVPInverse
    /\ frameUploads = << "E" >> /\ Committed = CameraOf("E")
    /\ m_vpInverse = MultiplyMatrix4x4(InvertProj(Decomposed["E"].gameProj),
                                       InvertView(Decomposed["E"].view))
    /\ m_vpInverse # MultiplyMatrix4x4(InvertView(m_lastView),
                                       InvertProj(m_lastGameProj))

\* the upper-left 3x3 of V has unit-length, mutually perpendicular columns
\* and the fourth column of V is (0,0,0,1)
Column(V, c) == << El(V, 1, c), El(V, 2, c), El(V, 3, c) >>
IsRigid(V) ==
    /\ \A c \in 1..3 : Dot3(Column(V, c), Column(V, c)) = F1
    /\ \A c, d \in 1..3 : c # d => Dot3(Column(V, c), Column(V, d)) = F0
    /\ << El(V, 1, 4), El(V, 2, 4), El(V, 3, 4), El(V, 4, 4) >> = << F0, F0, F0, F1 >>

\* C17: the View of the pending camera and the View of the committed camera
\* are rigid transforms: unit-length, mutually perpendicular right, up and
\* forward columns and a fourth column (0,0,0,1).
C17_ViewIsRigid ==
    /\ m_pendingUpdate => IsRigid(m_pendingView)
    /\ m_hasCamera => IsRigid(m_lastView)

\* P is zero outside _11, _22, _33, _34, _43, has _34 = 1 and positive
\* _11 and _22
IsPerspective(P) ==
    /\ \A r, c \in 1..4 :
          << r, c >> \notin { <<1, 1>>, <<2, 2>>, <<3, 3>>, <<3, 4>>, <<4, 3>> }
             => El(P, r, c) = F0
    /\ El(P, 3, 4) = F1
    /\ FGt(El(P, 1, 1), F0) /\ FGt(El(P, 2, 2), F0)

\* P and G agree everywhere but at _33 and _43
SameButDepth(P, G) ==
    \A r, c \in 1..4 : << r, c >> \notin { <<3, 3>>, <<4, 3>> } => El(P, r, c) = El(G, r, c)

\* _11 and _22 of P are the magnitudes of rows 0 and 1 of block f
ScalesOf(P, f) ==
    /\ FMul(El(P, 1, 1), El(P, 1, 1)) =
          FAdd(FAdd(FMul(At(f, 0), At(f, 0)), FMul(At(f, 4), At(f, 4))),
               FMul(At(f, 8), At(f, 8)))
    /\ FMul(El(P, 2, 2), El(P, 2, 2)) =
          FAdd(FAdd(FMul(At(f, 1), At(f, 1)), FMul(At(f, 5), At(f, 5))),
               FMul(At(f, 9), At(f, 9)))

IsProjectionPair(P, G) ==
    /\ IsPerspective(P) /\ IsPerspective(G) /\ SameButDepth(P, G)
    /\ \E id \in BlockIds : ScoreOf[id] > 0 /\ ScalesOf(P, Catalog[id])

\* C18: the Projection and GameProjection of the pending and of the
\* committed camera are zero outside _11, _22, _33, _34, _43, have _34 = 1
\* and positive _11 = xS and _22 = yS of a scored block, and differ from
\* each other at most at _33 and _43.
C18_ProjectionShape ==
    /\ m_pendingUpdate => IsProjectionPair(m_pendingProj, m_pendingGameProj)
    /\ m_hasCamera => IsProjectionPair(m_lastProj, m_lastGameProj)

\* a pending and a committed camera of different blocks, each with a
\* GameProjection whose depth coefficients are not the synthetic ones
C18_Witness ==
    /\ m_pendingUpdate /\ m_hasCamera /\ m_pendingGameProj # m_lastGameProj
    /\ m_pendingProj # m_pendingGameProj /\ m_lastProj # m_lastGameProj
    /\ El(m_pendingProj, 3, 3) = FDiv(zFar, FSub(zFar, zNear))

\* the World that goes with an upload of block f under inverse inv
WorldFor(f, inv) ==
    IF FGt(fabsf(At(f, 14)), F1)
    THEN MultiplyMatrix4x4(TransposeMatrix4x4(f), inv)
    ELSE CreateIdentityMatrix

\* C19: in LOCKED with a ViewProjectionInverse a window-covering upload
\* makes exactly two calls on the real device, first the World push and then
\* the forwarded upload; the World is transpose(block) multiplied by the
\* ViewProjectionInverse when |block[14]| > 1 and the identity otherwise; a
\* frame boundary pushes no World.
C19_WorldPushedOnArrival ==
    [][ /\ (CoveringUploadStep /\ m_detectState = "LOCKED" /\ m_hasVPInverse)
            => /\ Len(realCalls') = 2
               /\ realCalls'[1] = SetTransform("D3DTS_WORLD",
                                     WorldFor(Catalog[UploadedId], m_vpInverse))
               /\ realCalls'[2].call = "SetVertexShaderConstantF"
        /\ PresentStep => Pushes(realCalls', "D3DTS_WORLD") = 0 ]_vars

\* a full-resolution upload of a camera other than the committed one has
\* just pushed a World that is not the identity
C19_Witness ==
    /\ LastCallIs("SetVertexShaderConstantF") /\ m_detectState = "LOCKED"
    /\ ~frameClosed /\ frameUploads = << "C", "E" >>
    /\ Len(realCalls) = 2 /\ realCalls[1].arg[1] = "D3DTS_WORLD"
    /\ realCalls[1].arg[2] # CreateIdentityMatrix
    /\ FGt(fabsf(At(Catalog["E"], 14)), F1) /\ ~FGt(fabsf(At(Catalog["C"], 14)), F1)

\* the highest score among the uploads ids, 0 if there are none
MaxScore(ids) ==
    IF ids = << >> THEN 0
    ELSE CHOOSE m \in {ScoreOf[ids[i]] : i \in 1..Len(ids)} :
            \A i \in 1..Len(ids) : ScoreOf[ids[i]] <= m

\* C20: at every point the per-frame best score is the highest score of the
\* window-covering uploads since the last frame boundary (0 if none), the
\* has-candidate flag is true exactly when that score is positive, and the
\* retained block is then the first upload that reached it; right after a
\* frame boundary the score is 0 and there is no candidate.
C20_FrameBestIsFirstMaximum ==
    /\ m_frameBestScore = MaxScore(CurrentFrame)
    /\ m_hasFrameCandidate <=> MaxScore(CurrentFrame) > 0
    /\ m_hasFrameCandidate => m_frameBestVP = Catalog[FrameBest(CurrentFrame)]
    /\ frameClosed => (m_frameBestScore = 0 /\ ~m_hasFrameCandidate)

\* two different blocks with the same score in one frame: the first is kept
C20_Witness ==
    /\ ~frameClosed /\ frameUploads = << "E", "S" >>
    /\ ScoreOf["E"] = ScoreOf["S"] /\ Catalog["E"] # Catalog["S"]
    /\ m_frameBestVP = Catalog["E"] /\ m_frameBestScore = ScoreOf["S"]
    /\ g_frameCount > 0

\* ------------------------------------------------------------------------
\* the free functions
\* ------------------------------------------------------------------------

HasNonFinite(f) == \E i \in 0..15 : ~isfinite(At(f, i))

\* C21: a block in which at least one of the 16 values is NaN or +/-Infinity
\* scores exactly 0, whatever the other values are.
C21_NonFiniteScoresZero ==
    (fn = "ScoreAsVP" /\ HasNonFinite(fnArg.value)) => ret = 0

\* the score of block A with f[15] = -Infinity has been returned
C21_Witness ==
    /\ fn = "ScoreAsVP"
    /\ fnArg.kind = "nonfinite" /\ fnArg.base = "A" /\ fnArg.at = 15
    /\ At(fnArg.value, 15) = NInf
    /\ ret = 0

Within(v, lo, hi) == FLe(lo, v) /\ FLe(v, hi)

\* the three gates of the scorer on the magnitudes an ideal block was built with
PassesGates(in) ==
    /\ Within(in.w, R(8, 10), R(12, 10))
    /\ Within(in.xS, R(3, 10), Z(5))
    /\ Within(in.yS, R(3, 10), Z(5))

\* C23: the gates are hard and their bounds inclusive: a finite block scores 0
\* if its perspective-row magnitude is outside [0.8, 1.2] or its x or y scale
\* is outside [0.3, 5.0], and more than 0 if all three are inside.
C23_GatesAreHard ==
    (fn = "ScoreAsVP" /\ fnArg.kind = "ideal")
        => /\ PassesGates(fnArg) => ret > 0
           /\ ~PassesGates(fnArg) => ret = 0

\* a block with every magnitude exactly on a bound was scored
C23_Witness ==
    /\ fn = "ScoreAsVP" /\ fnArg.kind = "ideal"
    /\ fnArg.w = R(6, 5) /\ fnArg.xS = R(3, 10) /\ fnArg.yS = Z(5)
    /\ ret > 0

\* the two bonuses, on the magnitude an ideal block was built with and on
\* its f[15]
CloseToOne(in) == FLt(fabsf(FSub(in.w, F1)), R(5, 100))
FarFromOrigin(in) == FGt(fabsf(At(in.value, 15)), Z(10))

\* C24: a block that passes every gate scores 5 + 2 + 2, plus 3 when the
\* perspective-row magnitude is within 0.05 of 1 (exclusive), plus 2 when
\* |f[15]| > 10; so every score is one of 0, 9, 11, 12, 14, and the test
\* score >= 6 of the LOCKED mode holds for exactly the scores above 0.
C24_ScoreIsSumOfBonuses ==
    fn = "ScoreAsVP"
        => /\ ret \in {0, 9, 11, 12, 14}
           /\ QualifiesForDecompose(ret) <=> ret > 0
           /\ (fnArg.kind = "ideal" /\ PassesGates(fnArg))
                 => ret = 5 + 2 + 2 + (IF CloseToOne(fnArg) THEN 3 ELSE 0)
                                    + (IF FarFromOrigin(fnArg) THEN 2 ELSE 0)

\* a block whose perspective-row magnitude is exactly 1.05 and whose f[15] is
\* exactly -10 was scored: neither bonus
C24_Witness ==
    /\ fn = "ScoreAsVP" /\ fnArg.kind = "ideal"
    /\ fnArg.w = R(21, 20) /\ At(fnArg.value, 15) = Z(-10)
    /\ ret = 9

\* a scale or the forward magnitude an ideal block was built with is below 0.001
Degenerate(in) ==
    \/ FLt(in.xS, R(1, 1000)) \/ FLt(in.yS, R(1, 1000)) \/ FLt(in.w, R(1, 1000))

\* C25: decompose fails exactly when the x scale, the y scale or the
\* forward magnitude is below 0.001, and a failed call leaves the caller's
\* three matrices as they were.
C25_FailsOnlyWhenDegenerate ==
    fn = "DecomposeVP_ColMajor"
        => /\ fnArg.kind = "ideal" => (ret = ~Degenerate(fnArg))
           /\ ~ret => /\ viewOut = CallerMatrix
                       /\ projOut = CallerMatrix
                       /\ gameProjOut = CallerMatrix
                       /\ ~loggedProj
           /\ ret => viewOut # CallerMatrix

\* the decomposition of a block whose x scale is 0.0005 has failed
C25_Witness ==
    /\ fn = "DecomposeVP_ColMajor" /\ ~ret
    /\ fnArg.kind = "ideal" /\ fnArg.xS = R(1, 2000)
    /\ fnArg.yS = F1 /\ fnArg.w = F1
    /\ viewOut = CallerMatrix

\* the eye a View stands for: minus its translation row projected back onto
\* the three axes held in the columns
Scaled3(k, v) == << FMul(k, v[1]), FMul(k, v[2]), FMul(k, v[3]) >>
Added3(a, b) == << FAdd(a[1], b[1]), FAdd(a[2], b[2]), FAdd(a[3], b[3]) >>
RecoveredEye(V) ==
    Added3(Added3(Scaled3(FNeg(El(V, 4, 1)), Column(V, 1)),
                  Scaled3(FNeg(El(V, 4, 2)), Column(V, 2))),
           Scaled3(FNeg(El(V, 4, 3)), Column(V, 3)))

\* an ideal VP block: unit perspective row, both scales inside [0.3, 5.0]
IsIdealInRange(in) ==
    /\ in.kind = "ideal" /\ in.w = F1
    /\ Within(in.xS, R(3, 10), Z(5)) /\ Within(in.yS, R(3, 10), Z(5))

\* C26: for an ideal VP block built from an orthonormal basis, scales in
\* range and a known eye, the score is positive, decompose succeeds, the
\* View translation row is minus the eye projected on right, up and forward,
\* and the eye recovered from the View is the known eye.
C26_IdealBlockRoundTrip ==
    IsIdealInRange(fnArg)
        => /\ fn = "ScoreAsVP" => ret > 0
           /\ fn = "DecomposeVP_ColMajor"
                 => /\ ret
                    /\ TranslationRow(viewOut)
                          = << FNeg(Dot3(fnArg.basis[1], fnArg.eye)),
                               FNeg(Dot3(fnArg.basis[2], fnArg.eye)),
                               FNeg(Dot3(fnArg.basis[3], fnArg.eye)) >>
                    /\ RecoveredEye(viewOut) = fnArg.eye

\* the block of a camera at (100, 200, 300) turned about the z axis, with
\* scales 5 and 0.3, was scored and then decomposed
C26_Witness ==
    /\ fn = "DecomposeVP_ColMajor" /\ ret /\ h_scores # {}
    /\ IsIdealInRange(fnArg)
    /\ fnArg.basis[1] = TurnedX /\ fnArg.eye = EyeA
    /\ fnArg.xS = Z(5) /\ fnArg.yS = R(3, 10)
    /\ RecoveredEye(viewOut) = EyeA

\* C27: InvertView is an involution on rigid transforms: for a View with an
\* orthonormal rotation block, any translation row and fourth column
\* (0,0,0,1), inverting twice gives the View back and the View times its
\* inverse is the identity.
C27_InvertViewInvolution ==
    (fn = "InvertView" /\ IsRigid(fnArg.value))
        => /\ InvertView(ret) = fnArg.value
           /\ MultiplyMatrix4x4(fnArg.value, ret) = CreateIdentityMatrix

\* a View tilted about the x axis with translation row (1/2, -7, 9) was inverted
C27_Witness ==
    /\ fn = "InvertView" /\ IsRigid(fnArg.value)
    /\ Column(fnArg.value, 2) = TiltedY
    /\ TranslationRow(fnArg.value) = << R(1, 2), Z(-7), Z(9) >>
    /\ ret # fnArg.value
    /\ InvertView(ret) = fnArg.value

\* |v| >= 1e-4
AtLeastEpsilon(v) == FLe(R(1, 10000), fabsf(v))

\* the three coefficients InvertProj divides by are at least 1e-4 in magnitude
NonDegenerateProj(P) ==
    AtLeastEpsilon(El(P, 1, 1)) /\ AtLeastEpsilon(El(P, 2, 2)) /\ AtLeastEpsilon(El(P, 4, 3))

\* C28: for a perspective projection P of the shape the decomposer builds
\* whose xS, yS and B are at least 1e-4 in magnitude, P times InvertProj(P)
\* and InvertProj(P) times P are the identity.
C28_InvertProjIsInverse ==
    (fn = "InvertProj" /\ NonDegenerateProj(fnArg.value))
        => /\ MultiplyMatrix4x4(fnArg.value, ret) = CreateIdentityMatrix
           /\ MultiplyMatrix4x4(ret, fnArg.value) = CreateIdentityMatrix

\* a projection with xS = 1e-4, yS = -1e-4, A = 2 and B = -20 was inverted
C28_Witness ==
    /\ fn = "InvertProj"
    /\ fnArg.value = PerspectiveMatrix(R(1, 10000), R(-1, 10000), Z(2), Z(-20))
    /\ El(ret, 1, 1) = Z(10000) /\ El(ret, 4, 4) = R(1, 10)

\* |v| < 1e-4
BelowEpsilon(v) == FLt(fabsf(v), R(1, 10000))

\* C29: InvertProj returns the whole identity matrix exactly when |P._11|,
\* |P._22| or |P._43| is below 1e-4; otherwise it returns the filled inverse,
\* whatever P._33 is.
C29_InvertProjFallback ==
    fn = "InvertProj" =>
        LET P == fnArg.value
            fallback == BelowEpsilon(El(P, 1, 1)) \/ BelowEpsilon(El(P, 2, 2))
                        \/ BelowEpsilon(El(P, 4, 3))
        IN  /\ (ret = CreateIdentityMatrix) <=> fallback
            /\ ~fallback =>
                  ret = << FDiv(F1, El(P, 1, 1)), F0, F0, F0,
                           F0, FDiv(F1, El(P, 2, 2)), F0, F0,
                           F0, F0, F0, FDiv(F1, El(P, 4, 3)),
                           F0, F0, F1, FDiv(FNeg(El(P, 3, 3)), El(P, 4, 3)) >>

\* a projection with P._33 = 0 and the other three coefficients on the bound
\* 1e-4 was inverted without the fallback
C29_Witness ==
    /\ fn = "InvertProj"
    /\ fnArg.value = PerspectiveMatrix(R(1, 10000), R(-1, 10000), F0, R(1, 10000))
    /\ ret # CreateIdentityMatrix
    /\ El(ret, 3, 4) = Z(10000)

\* a projection whose only small coefficient is P._43 = 1/20000 was inverted
\* and the identity came back
C29_WitnessFallback ==
    /\ fn = "InvertProj"
    /\ fnArg.value = PerspectiveMatrix(F1, Z(-20), Z(2), R(1, 20000))
    /\ ret = CreateIdentityMatrix

\* ------------------------------------------------------------------------
\* the diagnostic window
\* ------------------------------------------------------------------------

\* the score of the block this step uploaded
UploadedScore == ScoreOf[UploadedId]

\* this step wrote a per-candidate record: lines 372-378 write the record
\* and count it, and nothing else raises the counter
RecordWritten == m_diagLogsThisFrame' = m_diagLogsThisFrame + 1

\* the window start is set by the first window-covering upload with
\* score > 0, to the frame counter of that upload, and by nothing else
StartSetOnce ==
    /\ [][(CoveringUploadStep /\ UploadedScore > 0 /\ m_diagStartFrame < 0)
            => m_diagStartFrame' = g_frameCount]_vars
    /\ [][m_diagStartFrame' # m_diagStartFrame
            => /\ CoveringUploadStep /\ UploadedScore > 0
               /\ m_diagStartFrame < 0 /\ m_diagStartFrame' = g_frameCount]_vars
    /\ [][m_diagStartFrame >= 0 => m_diagStartFrame' = m_diagStartFrame]_vars

\* a record is written only by a window-covering upload made while the
\* frame counter is below start + diagnosticFrames
RecordsOnlyInWindow ==
    [][RecordWritten
        => /\ CoveringUploadStep
           /\ m_diagStartFrame' >= 0
           /\ g_frameCount < m_diagStartFrame' + g_config.diagnosticFrames]_vars

\* the records since the last frame boundary are counted from 0 and never
\* exceed 15
AtMost15PerFrame ==
    /\ [](m_diagLogsThisFrame \in 0..15)
    /\ [][\/ RecordWritten
          \/ m_diagLogsThisFrame' = m_diagLogsThisFrame
          \/ (PresentStep /\ m_diagLogsThisFrame' = 0)]_vars

\* C30: the diagnostic window start is set once, by the first
\* window-covering upload with score > 0, and never changes afterwards; a
\* per-candidate record is written only while the frame counter is below
\* start + diagnosticFrames; at most 15 records are written between two
\* frame boundaries.
C30_DiagnosticRecordsBounded ==
    StartSetOnce /\ RecordsOnlyInWindow /\ AtMost15PerFrame

\* the sixteenth and seventeenth upload of a frame inside the window were
\* not recorded
DiagCapReached ==
    /\ m_diagLogsThisFrame = 15 /\ Len(CurrentFrame) = 17
    /\ InDiagWindow(m_diagStartFrame, g_frameCount)

\* DiagnosticFrames = 0: the upload that set the start was recorded
RecordedOutsideWindow ==
    /\ g_config.diagnosticFrames = 0
    /\ m_diagStartFrame = g_frameCount /\ m_diagLogsThisFrame = 1
    /\ ~InDiagWindow(m_diagStartFrame, g_frameCount)

\* ------------------------------------------------------------------------
\* two devices
\* ------------------------------------------------------------------------

\* this step is an upload, a BeginScene or a Present delivered to the device
\* being called while another wrapped device exists
EventBesidePeer == peer # NoDevice /\ peer'.id = peer.id /\ realCalls' # << >>

\* whether the other device is inside its diagnostic window (lines 364-365
\* evaluated on its members)
PeerInDiagWindow == InDiagWindow(peer.m_diagStartFrame, g_frameCount)

\* an event delivered to one device changes no member of the other device
PeerMembersUnchanged == [][EventBesidePeer => peer' = peer]_vars

\* an event delivered to one device leaves the other device inside, or
\* outside, its diagnostic window
PeerWindowUnchanged == [][EventBesidePeer => PeerInDiagWindow' = PeerInDiagWindow]_vars

\* C31: upload, BeginScene and frame-boundary events delivered to one
\* wrapped device leave every other wrapped device's lock phase, evidence
\* counter, previous scalar, per-frame best, pending camera, committed
\* camera and diagnostic window unchanged.
C31_DetectorStateIsPerDevice == PeerMembersUnchanged /\ PeerWindowUnchanged

\* the other device opened its diagnostic window at frame 0 and has not
\* presented a frame since, yet its window is over
PeerWindowClosedByOthers ==
    /\ peer # NoDevice
    /\ peer.m_diagStartFrame = 0 /\ peer.frameUploads # << >> /\ ~peer.frameClosed
    /\ ~PeerInDiagWindow

\* ------------------------------------------------------------------------
\* the exported boundary
\* ------------------------------------------------------------------------

\* the export called last had no resolved entry point
CalledUnresolved == fn \in Exports /\ fn \notin g_orig

\* an export whose entry point was not resolved fails: Direct3DCreate9
\* returns null, Direct3DCreate9Ex returns E_FAIL, a D3DPERF export returns
\* 0 or FALSE or nothing; none of them calls the original or wraps anything
UnresolvedExportFails ==
    /\ [](CalledUnresolved =>
            /\ ~ret.forwarded
            /\ fn = "Direct3DCreate9" => ret.value = "nullptr"
            /\ fn = "Direct3DCreate9Ex" => ret.value = "E_FAIL"
            /\ fn \in {"D3DPERF_BeginEvent", "D3DPERF_EndEvent", "D3DPERF_GetStatus"}
                  => ret.value = 0
            /\ fn = "D3DPERF_QueryRepeatFrame" => ret.value = FALSE
            /\ fn \in {"D3DPERF_SetMarker", "D3DPERF_SetOptions", "D3DPERF_SetRegion"}
                  => ret.value = "void")
    /\ [][(fn' \in Exports /\ fn' \notin g_orig') => wrapped' = wrapped]_vars

\* the library or one of its entry points was not resolved at load time
SomethingUnresolved == attached /\ (~g_hRemixD3D9 \/ g_orig # Exports)

\* neither Direct3DCreate9 nor Direct3DCreate9Ex was resolved at load time
NoCreateResolved == attached /\ g_orig \cap CreateExports = {}

\* C32 as stated: when the library or an entry point was not resolved, the
\* exports fail as above and no wrapper, hence no wrapped device, is ever
\* created.
C32_NothingWrappedWhenUnresolved ==
    /\ UnresolvedExportFails
    /\ [](SomethingUnresolved => wrapped = NothingWrapped)

\* C32: an export whose own entry point was not resolved fails without
\* calling the original or wrapping anything; a library that was not
\* resolved leaves every entry point unresolved; and no wrapper and no
\* wrapped device is ever created when neither creation entry point was
\* resolved.
C32_UnresolvedExportFails ==
    /\ UnresolvedExportFails
    /\ [](~g_hRemixD3D9 => g_orig = {})
    /\ [](NoCreateResolved => wrapped = NothingWrapped)

\* Direct3DCreate9Ex was not resolved and has just failed, while a device
\* created through the resolved Direct3DCreate9 exists
C32_Witness ==
    /\ g_hRemixD3D9 /\ "Direct3DCreate9" \in g_orig
    /\ fn = "Direct3DCreate9Ex" /\ CalledUnresolved
    /\ ret.value = "E_FAIL"
    /\ wrapped.WrappedD3D9 = 1 /\ wrapped.WrappedD3D9Device = 1

\* the library was not found: Direct3DCreate9 has just returned null
C32_WitnessNoLibrary ==
    /\ attached /\ ~g_hRemixD3D9
    /\ fn = "Direct3DCreate9" /\ ret.value = "nullptr"
    /\ wrapped = NothingWrapped

\* ------------------------------------------------------------------------
\* LOCKED has a camera
\* ------------------------------------------------------------------------

\* this step is the frame boundary that locks
LockStep == m_detectState = "SCANNING" /\ m_detectState' = "LOCKED"

\* C33: in every reachable state LOCKED implies a committed camera and a
\* ViewProjectionInverse; the decomposition run at the lock transition
\* succeeds on the frame's best candidate and is what gets committed; and
\* no upload ever takes the first-camera branch (no upload turns
\* m_hasCamera from false to true).
C33_LockedHasCamera ==
    /\ [](m_detectState = "LOCKED" => m_hasCamera /\ m_hasVPInverse)
    /\ [][LockStep =>
            /\ Decomposed[FrameBest(CurrentFrame)].ok
            /\ m_hasCamera' /\ m_hasVPInverse'
            /\ m_lastView' = Decomposed[FrameBest(CurrentFrame)].view]_vars
    /\ [][CoveringUploadStep => m_hasCamera' = m_hasCamera]_vars

\* the frame boundary that locked has just committed the camera of the
\* frame's best candidate
C33_Witness ==
    /\ m_detectState = "LOCKED" /\ h_lockCount = 1
    /\ frameClosed /\ LastCallIs("Present")
    /\ m_consecutiveFrames = LockFrames
    /\ m_hasCamera /\ m_hasVPInverse
    /\ m_lastView = Decomposed[FrameBest(frameUploads)].view

\* ------------------------------------------------------------------------
\* the watched register window
\* ------------------------------------------------------------------------

\* the upload u has just been handled: its forward is the last real call
JustUploaded(u) ==
    realCalls' # << >> /\ realCalls'[Len(realCalls')] = Forward("SetVertexShaderConstantF", u)

\* u misses the window c0-c3: fewer than 4 vectors, null data, a start above
\* the window start, or an end below the window end
MissesWindow(u) ==
    \/ u.Vector4fCount < 4
    \/ u.null
    \/ u.StartRegister > 0
    \/ u.StartRegister + u.Vector4fCount < 0 + 4

\* the 16 floats at offset (0 - StartRegister) * 4 of the uploaded data
FloatsAtWindow(u) == SubSeq(pConstantData(u), (0 - u.StartRegister) * 4 + 1,
                            (0 - u.StartRegister) * 4 + 16)

\* C34: an upload that misses the window changes no detector state and
\* pushes no transform (its forward is the only real call); a covering
\* upload is scored on exactly the 16 floats at offset
\* (windowStart - StartRegister) * 4: the per-frame best score becomes the
\* larger of its old value and the score of those floats, and when that
\* score is larger those floats become the per-frame best block.
C34_OnlyWindowIsScored ==
    [][\A u \in UploadInputs : JustUploaded(u) =>
          IF MissesWindow(u)
          THEN /\ UNCHANGED << detector, g_frameCount, loggedProj >>
               /\ Len(realCalls') = 1
               /\ ~CoveringUploadStep
          ELSE /\ CoveringUploadStep
               /\ LET score == ScoreAsVP(FloatsAtWindow(u))
                  IN  IF score > m_frameBestScore
                      THEN /\ m_frameBestScore' = score
                           /\ m_frameBestVP' = FloatsAtWindow(u)
                           /\ m_hasFrameCandidate'
                      ELSE UNCHANGED << m_frameBestScore, m_frameBestVP,
                                        m_hasFrameCandidate >>]_vars

\* block A followed by a fifth vector has just been uploaded at c0 and its
\* first 16 floats are the frame's best block
C34_Witness ==
    /\ realCalls # << >>
    /\ realCalls[Len(realCalls)].call = "SetVertexShaderConstantF"
    /\ realCalls[Len(realCalls)].arg.Vector4fCount = 5
    /\ m_frameBestVP = BlockA /\ m_frameBestScore = 14
    /\ frameUploads = <<"A">> /\ ~frameClosed

\* in LOCKED an upload of block A at c1 has just been forwarded and nothing
\* else was called
MissedInLocked ==
    /\ m_detectState = "LOCKED" /\ m_hasCamera
    /\ realCalls = << Forward("SetVertexShaderConstantF",
                       [block |-> "A", StartRegister |-> 1, Vector4fCount |-> 4,
                        null |-> FALSE]) >>

\* ---------------------------------------------------------------------
\* The host's view of one wrapped device: the three handlers, each answered
\* by the real device with success or with a failure code.
\* ---------------------------------------------------------------------
MaxHostUploads == 2
MaxHostFrames == 5

\* the uploads of the host: two blocks at the watched window and one upload
\* that misses it
HostInputs ==
    PeerInputs
    \cup { [block |-> "A", StartRegister |-> 1, Vector4fCount |-> 4, null |-> FALSE] }

HostNext ==
    \/ \E u \in HostInputs, hr \in Results :
          UploadsLeft(u, MaxHostUploads) /\ SetVertexShaderConstantF(u, hr)
    \/ \E hr \in Results : FramesLeft(MaxHostFrames) /\ Present(hr)
    \/ \E hr \in Results : BeginScene(hr)

HostSpec == Init /\ [][HostNext]_vars

\* the calls a handler made on the real device before its last one
PushedBefore == SubSeq(realCalls', 1, Len(realCalls') - 1)

\* C35: every upload, Present and BeginScene call is forwarded to the real
\* device exactly once, with the arguments the host passed, and the real
\* device's result is what the host gets back, whatever the lock phase; the
\* forwarded call is the last call the handler makes on the real device, so
\* every transform the engine pushes for the event precedes it.
C35_ProxyIsTransparent ==
    [][/\ realCalls' # << >>
       /\ realCalls'[Len(realCalls')] = Forward(fn', fnArg')
       /\ \A i \in DOMAIN PushedBefore : PushedBefore[i].call = "SetTransform"
       /\ ret'.value = ret'.real]_vars

\* a covering upload in LOCKED pushed transforms and was then forwarded, the
\* real device failed and the host received the failure
C35_Witness ==
    /\ m_detectState = "LOCKED"
    /\ fn = "SetVertexShaderConstantF"
    /\ Len(realCalls) > 1
    /\ realCalls[1].call = "SetTransform"
    /\ realCalls[Len(realCalls)] = Forward("SetVertexShaderConstantF", fnArg)
    /\ ret = [value |-> "D3DERR_DEVICELOST", real |-> "D3DERR_DEVICELOST"]

\* a Present that committed a pending camera has been forwarded last and
\* the real device failed
C35_WitnessPresent ==
    /\ fn = "Present"
    /\ Len(realCalls) = 3
    /\ realCalls[3] = Forward("Present", << >>)
    /\ ret.value = "D3DERR_DEVICELOST"

\* a frame boundary in SCANNING that closes a frame in which no covering
\* upload scored above 0
SkippedFrameStep ==
    /\ PresentStep
    /\ m_detectState = "SCANNING"
    /\ ~FrameHasCandidate(CurrentFrame)

\* C36: a frame boundary in SCANNING for a frame with no candidate changes
\* neither the evidence counter nor the stored previous scalar nor the lock
\* phase; so, while SCANNING, the stored scalar is the best f[15] of the last
\* frame that had a candidate, whatever frames without one have passed
\* since, and that is what the next candidate frame is compared with.
C36_SkippedFrameChangesNoEvidence ==
    /\ [][SkippedFrameStep
            => UNCHANGED << m_consecutiveFrames, m_prevVP44, m_detectState >>]_vars
    /\ []((m_detectState = "SCANNING" /\ h_candFrames > 0) => m_prevVP44 = h_candPrev)

\* two frames with a candidate have counted and a frame whose only covering
\* upload scored 0 has just been closed: counter and scalar are those of
\* the second frame
C36_Witness ==
    /\ LastCallIs("Present") /\ m_detectState = "SCANNING"
    /\ frameClosed /\ Len(frameUploads) > 0 /\ ~FrameHasCandidate(frameUploads)
    /\ g_frameCount = 3 /\ h_candFrames = 2 /\ m_consecutiveFrames = 2
    /\ m_prevVP44 = h_candPrev /\ m_prevVP44 # F0

\* the host has just called BeginScene
BeginSceneStep == fn' = "BeginScene"

\* C37: BeginScene re-asserts the committed camera: when a committed camera
\* exists it pushes the identity World, the committed View and the committed
\* Projection, in that order, and then forwards; when none exists it only
\* forwards; in both cases no member of the detector and not the frame
\* counter changes.
C37_BeginSceneReassertsCamera ==
    [][BeginSceneStep
         => /\ realCalls' =
                  IF m_hasCamera
                  THEN << SetTransform("D3DTS_WORLD", CreateIdentityMatrix),
                          SetTransform("D3DTS_VIEW", m_lastView),
                          SetTransform("D3DTS_PROJECTION", m_lastProj),
                          Forward("BeginScene", << >>) >>
                  ELSE << Forward("BeginScene", << >>) >>
            /\ UNCHANGED << detector, g_frameCount >>]_vars

\* in LOCKED, with a camera committed from block A, BeginScene has pushed
\* World, View and Projection and has been forwarded
C37_Witness ==
    /\ fn = "BeginScene" /\ m_detectState = "LOCKED" /\ m_hasCamera
    /\ Len(realCalls) = 4
    /\ realCalls[1] = SetTransform("D3DTS_WORLD", CreateIdentityMatrix)
    /\ realCalls[2] = SetTransform("D3DTS_VIEW", m_lastView)
    /\ realCalls[3] = SetTransform("D3DTS_PROJECTION", m_lastProj)
    /\ m_lastView # ZeroMatrix /\ m_lastView # CreateIdentityMatrix

\* in SCANNING, with evidence gathered but no camera, BeginScene has only
\* been forwarded
C37_WitnessNoCamera ==
    /\ fn = "BeginScene" /\ m_detectState = "SCANNING" /\ ~m_hasCamera
    /\ m_consecutiveFrames = 2
    /\ realCalls = << Forward("BeginScene", << >>) >>

\* an upload of the frame reached the decomposition threshold and was
\* decomposed
StagedInFrame(ids) == \E i \in Qualifying(ids) : Decomposed[ids[i]].ok

\* C38: the pending flag is set only in LOCKED, and exactly while the
\* current frame has had a successfully decomposed upload; every frame
\* boundary leaves it clear; a boundary that finds it set commits the pending
\* camera with one push of View and Projection, and a boundary in LOCKED that
\* finds it clear commits and pushes nothing, so a pending camera is
\* consumed by the first boundary after it and by no later one.
C38_PendingConsumedAtNextBoundary ==
    /\ [](m_pendingUpdate => m_detectState = "LOCKED")
    /\ [](m_pendingUpdate <=> (m_detectState = "LOCKED" /\ StagedInFrame(CurrentFrame)))
    /\ [][PresentStep
            => /\ ~m_pendingUpdate'
               /\ m_pendingUpdate
                    => /\ Committed' = Pending
                       /\ Pushes(realCalls', "D3DTS_VIEW") = 1
                       /\ Pushes(realCalls', "D3DTS_PROJECTION") = 1
               /\ (~m_pendingUpdate /\ m_detectState = "LOCKED")
                    => /\ Committed' = Committed
                       /\ ~AnyPush(realCalls')]_vars

\* the fourth frame staged a camera and its boundary committed it; the
\* fifth frame had no upload and its boundary has pushed nothing: the flag
\* is clear and the committed camera is still the one staged in the fourth
C38_Witness ==
    /\ g_frameCount = 5 /\ m_detectState = "LOCKED" /\ fn = "Present"
    /\ realCalls = << Forward("Present", << >>) >>
    /\ frameClosed /\ frameUploads = << >>
    /\ ~m_pendingUpdate
    /\ m_pendingView # ZeroMatrix /\ Committed = Pending

\* a camera is staged in LOCKED and waits for the frame boundary
C38_WitnessStaged ==
    /\ m_pendingUpdate /\ m_detectState = "LOCKED"
    /\ fn = "SetVertexShaderConstantF" /\ Committed # Pending
====
